---- MODULE Spec2Model ----
(***************************************************************************)
(* A model of the survey application's form pipeline: the session store,   *)
(* the ControllingPersonComponent (render / validate / serialize) and the  *)
(* submit page.  Text values are sequences of one-character strings, so    *)
(* that trimming, length and digit tests are computed as the code does.    *)
(* Store keys and error prefixes are built by string concatenation, as the *)
(* f-strings of the source build them.  Further parts model the component *)
(* registry, send_submission_email, the CSV generators, the attachment     *)
(* file names and collector, and the informed-consent page with the        *)
(* consent gate of main().                                                 *)
(***************************************************************************)
EXTENDS Integers, Sequences, FiniteSets, TLC

VARIABLES
    store,      \* st.session_state: a mapping from string keys to values
    errors,     \* the last validate call since the last edit: << >> or <<[dev, cfg, list]>>
    payload,    \* the last serialize call since the last edit: << >> or <<[payload, uploads]>>
    edits,      \* number of widget interactions so far
    pc,         \* position of the submit page's current run
    calls,      \* the collaborators the run has invoked, in call order
    shown,      \* the messages and download buttons the run has drawn, in order
    locals,     \* the run's local variables
    runs,       \* history: runs of the submission pipeline since the answers last changed or the user last reset;
                \* on the consent page, the reruns since the last interaction
    _REGISTRY,  \* common_form_sections._REGISTRY: component name -> component
    held,       \* the mapping a caller holds from get_component_registry: << >> or <<handle>>
    got,        \* the last get_component call since the last registration: << >> or <<[name, component]>>
    registered, \* history: for each name, the component last passed to register_component
    arg,        \* the argument of the pure function under study
    result,     \* what the function returned for arg: << >> or <<value>>
    attachments, \* AttachmentCollector.attachments of the one collector
    added       \* history: the files of the add_attachment calls with a file since the last clear

vars == <<store, errors, payload, edits, pc, calls, shown, locals, runs,
          _REGISTRY, held, got, registered, arg, result, attachments, added>>

\* the variables of the attachment collector
collectorState == <<attachments, added>>

\* the variables of the component registry
registryState == <<_REGISTRY, held, got, registered>>

\* the variables of a function call
callState == <<arg, result>>

\* the variables of the session and of the submit page
sessionState == <<store, errors, payload, edits, pc, calls, shown, locals, runs>>

----------------------------------------------------------------------------
(* Bounds of the model *)

MaxCount == 2
MaxEdits == 3

\* the number of pipeline runs on unchanged answers that the model follows
MaxRuns == 2

----------------------------------------------------------------------------
(* Text values *)

EmptyStr == << >>
X == <<"x">>
Blank == <<" ">>
SouthAfrica == <<"S","o","u","t","h"," ","A","f","r","i","c","a">>
Kenya == <<"K","e","n","y","a">>
Other == <<"O","t","h","e","r">>
Gauteng == <<"G","a","u","t","e","n","g">>
Director == <<"D","i","r","e","c","t","o","r">>
HAS_TIN == <<"H","A","S","_","T","I","N">>
NO_TIN_PROVIDED == <<"N","O","_","T","I","N","_","P","R","O","V","I","D","E","D">>

Whitespace == {" ", "\t", "\n"}
DigitChar == <<"0", "1", "2", "3", "4", "5", "6", "7", "8", "9">>
Digits == {DigitChar[k] : k \in 1..Len(DigitChar)}

RECURSIVE lstrip(_)
lstrip(s) == IF s # << >> /\ Head(s) \in Whitespace THEN lstrip(Tail(s)) ELSE s

RECURSIVE rstrip(_)
rstrip(s) ==
    IF s # << >> /\ s[Len(s)] \in Whitespace
    THEN rstrip(SubSeq(s, 1, Len(s) - 1))
    ELSE s

\* str.strip()
strip(s) == rstrip(lstrip(s))

\* re.fullmatch(r"\d{4}", code)
FullMatch4Digits(code) == Len(code) = 4 /\ \A k \in 1..4 : code[k] \in Digits

----------------------------------------------------------------------------
(* Dates: a date is its proleptic Gregorian ordinal (date.toordinal()).    *)
(* A date-valued store entry is << >> for None and <<ordinal>> for a date. *)

NoDate == << >>

\* ordinal of (y, m, d)
DaysFromCivil(y, m, d) ==
    LET yy  == IF m <= 2 THEN y - 1 ELSE y
        era == yy \div 400
        yoe == yy - era * 400
        mp  == IF m > 2 THEN m - 3 ELSE m + 9
        doy == (153 * mp + 2) \div 5 + d - 1
        doe == yoe * 365 + yoe \div 4 - yoe \div 100 + doy
    IN  era * 146097 + doe - 305

\* (year, month, day) of an ordinal
CivilFromDays(n) ==
    LET z   == n + 305
        era == z \div 146097
        doe == z - era * 146097
        yoe == (doe - doe \div 1460 + doe \div 36524 - doe \div 146096) \div 365
        doy == doe - (365 * yoe + yoe \div 4 - yoe \div 100)
        mp  == (5 * doy + 2) \div 153
        d   == doy - (153 * mp + 2) \div 5 + 1
        m   == IF mp < 10 THEN mp + 3 ELSE mp - 9
        y   == yoe + era * 400 + (IF m <= 2 THEN 1 ELSE 0)
    IN  <<y, m, d>>

\* zero-padded decimal rendering of n on w digits
RECURSIVE Pad(_, _)
Pad(n, w) == IF w = 0 THEN << >> ELSE Append(Pad(n \div 10, w - 1), DigitChar[(n % 10) + 1])

\* dob.strftime("%Y/%m/%d")
strftime(n) ==
    LET c == CivilFromDays(n)
    IN  Pad(c[1], 4) \o <<"/">> \o Pad(c[2], 2) \o <<"/">> \o Pad(c[3], 2)

\* datetime.date.today(), fixed for the model
Today == DaysFromCivil(2025, 6, 15)

\* datetime.date.today() - datetime.timedelta(days=365*18)
MinAgeDate == Today - 365 * 18

----------------------------------------------------------------------------
(* Key namespacing and the session store *)

NS == "investment_research"
InstanceId == "controlling_persons"

\* app.utils.inst_key(ns, instance_id, key)
inst_key(ns, instance_id, suffix) == ns \o "__" \o instance_id \o "__" \o suffix

\* a variant that leaves the record index out of the key
Suffix_no_index(field, i) == field

\* the f-string f"<field>_{i}"
Suffix(field, i) == field \o "_" \o ToString(i)

\* inst_key(ns, instance_id, "count")
count_key == inst_key(NS, InstanceId, "count")

\* the field keys each pass of the component addresses, in source order
RenderFields ==
    <<"first_name", "last_name", "date_of_birth", "birth_country", "member_role",
      "tax_residence_country", "tin_option", "controlling_person_tin",
      "unit_number", "street_number", "complex_name", "street_name",
      "address_country", "suburb", "city", "province", "postal_code">>

ValidateFields ==
    <<"first_name", "last_name", "date_of_birth", "birth_country", "member_role",
      "tax_residence_country", "tin_option", "controlling_person_tin",
      "street_name", "suburb", "city", "address_country", "province",
      "postal_code">>

SerializeFields ==
    <<"date_of_birth", "address_country", "first_name", "last_name",
      "birth_country", "member_role", "tax_residence_country", "tin_option",
      "controlling_person_tin", "street_number", "unit_number", "complex_name",
      "street_name", "suburb", "city", "postal_code", "province">>

Range(f) == {f[k] : k \in DOMAIN f}

\* the key render writes for a field of record i
RenderKey(field, i) == inst_key(NS, InstanceId, Suffix(field, i))

\* the key validate reads for a field of record i
ValidateKey(field, i) == inst_key(NS, InstanceId, Suffix(field, i))

\* the key serialize reads for a field of record i
SerializeKey(field, i) == inst_key(NS, InstanceId, Suffix(field, i))

\* st.session_state.get(key, default)
Get(s, key, default) == IF key \in DOMAIN s THEN s[key] ELSE default

\* st.session_state[key] = value
Put(s, key, value) == [k \in DOMAIN s \cup {key} |-> IF k = key THEN value ELSE s[k]]

\* SA_PROVINCES (the model carries the empty entry and one province)
SA_PROVINCES == <<EmptyStr, Gauteng>>

----------------------------------------------------------------------------
(* ControllingPersonComponent.validate *)

Err(prefix, text) == [prefix |-> prefix, text |-> text]

\* f"[{role_label} #{i+1}]"
Prefix(role_label, i) == "[" \o role_label \o " #" \o ToString(i + 1) \o "]"

\* a variant that only matches a prefix (re.match in place of re.fullmatch)
_postal_ok_prefix(code, country) ==
    IF strip(country) = SouthAfrica
    THEN Len(code) >= 4 /\ \A k \in 1..4 : code[k] \in Digits
    ELSE code # EmptyStr /\ Len(code) <= 10

\* _postal_ok(code, country)
_postal_ok(code, country) ==
    IF strip(country) = SouthAfrica
    THEN FullMatch4Digits(code)
    ELSE code # EmptyStr /\ Len(code) <= 10

\* (st.session_state.get(key) or "").strip()
Stripped(s, field, i) == strip(Get(s, ValidateKey(field, i), EmptyStr))

\* one required-text rule: the error when the trimmed value is empty
Required(s, field, i, prefix, text) ==
    IF Stripped(s, field, i) = EmptyStr THEN <<Err(prefix, text)>> ELSE << >>

DobErrors(s, i, prefix) ==
    LET dob == Get(s, ValidateKey("date_of_birth", i), NoDate)
    IN  IF dob = NoDate
        THEN <<Err(prefix, " Date of Birth is required.")>>
        ELSE IF dob[1] > MinAgeDate
             THEN <<Err(prefix, " Must be at least 18 years old.")>>
             ELSE << >>

TinErrors(s, i, prefix) ==
    LET tin_option == Get(s, ValidateKey("tin_option", i), EmptyStr)
    IN  IF tin_option = EmptyStr
        THEN <<Err(prefix, " TIN Option is required.")>>
        ELSE IF tin_option = HAS_TIN
             THEN Required(s, "controlling_person_tin", i, prefix,
                      " Controlling Person TIN is required when TIN Option is 'Has TIN'.")
             ELSE << >>

\* a variant that requires the province whatever the country
ProvinceErrors_any(s, i, prefix) ==
    Required(s, "province", i, prefix, " Province is required for South Africa.")

ProvinceErrors(s, i, prefix) ==
    IF Stripped(s, "address_country", i) = SouthAfrica
    THEN Required(s, "province", i, prefix, " Province is required for South Africa.")
    ELSE << >>

PostalErrors(s, i, prefix) ==
    LET address_country == Stripped(s, "address_country", i)
        postal_code == Stripped(s, "postal_code", i)
    IN  IF postal_code = EmptyStr
        THEN <<Err(prefix, " Postal Code is required.")>>
        ELSE IF ~ _postal_ok(postal_code, address_country)
             THEN IF address_country = SouthAfrica
                  THEN <<Err(prefix, " Postal Code must be exactly 4 digits for South Africa.")>>
                  ELSE <<Err(prefix, " Postal Code is invalid.")>>
             ELSE << >>

\* the body of the loop over the records, for record i
PersonErrors(s, i, role_label) ==
    LET prefix == Prefix(role_label, i)
    IN  Required(s, "first_name", i, prefix, " First Name is required.")
        \o Required(s, "last_name", i, prefix, " Last Name is required.")
        \o DobErrors(s, i, prefix)
        \o Required(s, "birth_country", i, prefix, " Country of Birth is required.")
        \o Required(s, "member_role", i, prefix, " Role/Designation is required.")
        \o Required(s, "tax_residence_country", i, prefix, " Country of Tax Residence is required.")
        \o TinErrors(s, i, prefix)
        \o Required(s, "street_name", i, prefix, " Street Name is required.")
        \o Required(s, "suburb", i, prefix, " Suburb is required.")
        \o Required(s, "city", i, prefix, " City is required.")
        \o Required(s, "address_country", i, prefix, " Address Country is required.")
        \o ProvinceErrors(s, i, prefix)
        \o PostalErrors(s, i, prefix)

\* a variant that stops at the first record that has an error
RECURSIVE LoopErrors_stop(_, _, _, _)
LoopErrors_stop(s, i, n, role_label) ==
    IF i >= n THEN << >>
    ELSE IF PersonErrors(s, i, role_label) # << >>
         THEN PersonErrors(s, i, role_label)
         ELSE LoopErrors_stop(s, i + 1, n, role_label)

\* the errors of records i .. n-1, in index order
RECURSIVE LoopErrors(_, _, _, _)
LoopErrors(s, i, n, role_label) ==
    IF i >= n THEN << >>
    ELSE PersonErrors(s, i, role_label) \o LoopErrors(s, i + 1, n, role_label)

MinCountErrors(n, c) ==
    IF n < c.min_count
    THEN <<Err("[" \o c.role_label \o "s]",
               " At least " \o ToString(c.min_count) \o " entr"
                  \o (IF c.min_count = 1 THEN "y" ELSE "ies") \o " required.")>>
    ELSE << >>

\* a variant that tests the development-mode flag after the count check
validate_dev_late(s, c, dev) ==
    LET n == Get(s, count_key, 0)
    IN  IF n < c.min_count THEN MinCountErrors(n, c)
        ELSE IF dev THEN << >>
        ELSE LoopErrors(s, 0, n, c.role_label)

\* ControllingPersonComponent.validate(ns, instance_id, **config)
validate(s, c, dev) ==
    IF dev THEN << >>
    ELSE LET n == Get(s, count_key, 0)
         IN  MinCountErrors(n, c) \o LoopErrors(s, 0, n, c.role_label)

----------------------------------------------------------------------------
(* ControllingPersonComponent.serialize *)

\* a variant without the "" default: st.session_state.get(key) gives None
Raw_no_default(s, field, i) == Get(s, SerializeKey(field, i), <<"N", "o", "n", "e">>)

\* st.session_state.get(inst_key(ns, instance_id, f"<field>_{i}"), "")
Raw(s, field, i) == Get(s, SerializeKey(field, i), EmptyStr)

\* the "safe date formatting" of the date of birth
dob_str(s, i) ==
    LET dob == Get(s, SerializeKey("date_of_birth", i), NoDate)
    IN  IF dob # NoDate THEN strftime(dob[1]) ELSE EmptyStr

\* the Province/State entry: the stored province for South Africa, else "Other"
ProvinceOut(s, i) ==
    IF Raw(s, "address_country", i) = SouthAfrica
    THEN Raw(s, "province", i)
    ELSE Other

\* person_data of record i
person_data(s, i) ==
    ("First Name" :> Raw(s, "first_name", i))
    @@ ("Last Name" :> Raw(s, "last_name", i))
    @@ ("Date of Birth" :> dob_str(s, i))
    @@ ("Country of Birth" :> Raw(s, "birth_country", i))
    @@ ("Role/Designation" :> Raw(s, "member_role", i))
    @@ ("Country of Tax Residence" :> Raw(s, "tax_residence_country", i))
    @@ ("TIN Option" :> Raw(s, "tin_option", i))
    @@ ("Controlling Person TIN" :> Raw(s, "controlling_person_tin", i))
    @@ ("Street Number" :> Raw(s, "street_number", i))
    @@ ("Unit Number" :> Raw(s, "unit_number", i))
    @@ ("Complex Name" :> Raw(s, "complex_name", i))
    @@ ("Street Name" :> Raw(s, "street_name", i))
    @@ ("Suburb" :> Raw(s, "suburb", i))
    @@ ("City" :> Raw(s, "city", i))
    @@ ("Address Country" :> Raw(s, "address_country", i))
    @@ ("Postal Code" :> Raw(s, "postal_code", i))
    @@ ("Province/State" :> ProvinceOut(s, i))

\* people after the loop has appended records i .. n-1
RECURSIVE people(_, _, _)
people(s, i, n) ==
    IF i >= n THEN << >> ELSE <<person_data(s, i)>> \o people(s, i + 1, n)

\* a variant that leaves Records out of an empty payload
serialize_omitting(s) ==
    LET n == Get(s, count_key, 0)
    IN  IF n = 0
        THEN [payload |-> [Count |-> 0], uploads |-> << >>]
        ELSE [payload |-> [Count |-> n, Records |-> people(s, 0, n)], uploads |-> << >>]

\* ControllingPersonComponent.serialize(ns, instance_id, **config)
serialize(s) ==
    LET n == Get(s, count_key, 0)
    IN  [payload |-> [Count |-> n, Records |-> people(s, 0, n)], uploads |-> << >>]

----------------------------------------------------------------------------
(* ControllingPersonComponent.render and the widgets *)

\* key of the read-only Province/State display widget of record i
province_display_key(i) == "province_display_" \o ToString(i)

Remove(s, key) == [k \in DOMAIN s \ {key} |-> s[k]]

\* app.utils.persist_selectbox(label, key, options) drawn without the user touching
\* it: render "writes edits back" to the store, so a draw alone writes nothing
persist_selectbox(s, key, options) == s

\* the Province/State block of record i
RenderProvince(s, i) ==
    LET selected_address_country == Get(s, RenderKey("address_country", i), EmptyStr)
    IN  IF selected_address_country = SouthAfrica
        THEN Remove(persist_selectbox(s, RenderKey("province", i), SA_PROVINCES),
                    province_display_key(i))
        ELSE IF selected_address_country # EmptyStr
             THEN Put(Put(s, RenderKey("province", i), Other), province_display_key(i), Other)
             ELSE Put(s, province_display_key(i), EmptyStr)

\* the loop of render over records i .. n-1
RECURSIVE RenderLoop(_, _, _)
RenderLoop(s, i, n) ==
    IF i >= n THEN s ELSE RenderLoop(RenderProvince(s, i), i + 1, n)

\* widgets of records that are no longer drawn lose their widget state
RECURSIVE DropDisplays(_, _)
DropDisplays(s, i) ==
    IF i >= MaxCount THEN s ELSE DropDisplays(Remove(s, province_display_key(i)), i + 1)

\* ControllingPersonComponent.render(ns, instance_id, **config): its effect on the store
render(s) ==
    LET n == Get(s, count_key, 0)
    IN  RenderLoop(DropDisplays(s, n), 0, n)

----------------------------------------------------------------------------
(* What the user can enter in each widget of a record *)

P1234 == <<"1", "2", "3", "4">>
P12a == <<"1", "2", "a">>
P00100 == <<"0", "0", "1", "0", "0">>
P11 == <<"1", "2", "3", "4", "5", "6", "7", "8", "9", "0", "1">>
PPadded == <<" ", "1", "2", "3", "4">>

TextFields == {"first_name", "last_name", "street_name", "suburb", "city"}
OptionalFields == {"unit_number", "street_number", "complex_name"}

WidgetValues(field) ==
    CASE field \in TextFields -> {X, Blank}
      [] field \in OptionalFields -> {X}
      [] field = "controlling_person_tin" -> {X, Blank}
      [] field = "date_of_birth" -> {<<MinAgeDate>>}
      [] field \in {"birth_country", "tax_residence_country"} -> {Kenya}
      [] field = "member_role" -> {Director}
      [] field = "tin_option" -> {HAS_TIN, NO_TIN_PROVIDED}
      [] field = "address_country" -> {EmptyStr, SouthAfrica, Kenya}
      [] field = "province" -> Range(SA_PROVINCES)
      [] field = "postal_code" -> {P1234, P12a, P00100, P11, PPadded, Blank}

\* whether render draws the widget of this field for record i
Drawn(s, field, i) ==
    /\ i < Get(s, count_key, 0)
    /\ field = "controlling_person_tin" =>
          Get(s, RenderKey("tin_option", i), EmptyStr) = HAS_TIN
    /\ field = "province" =>
          Get(s, RenderKey("address_country", i), EmptyStr) = SouthAfrica

Configs == {[role_label |-> "Controlling Person", min_count |-> 1],
            [role_label |-> "Director", min_count |-> 3]}

\* the (config, is_dev_mode()) pairs validate is called with
ValidateCalls ==
    {[cfg |-> c, dev |-> d] : c \in Configs, d \in BOOLEAN}

NoStore == [k \in {} |-> EmptyStr]

----------------------------------------------------------------------------
(* The component under user interaction *)

----------------------------------------------------------------------------
(* The component registry *)

ComponentNames == {"address", "phone", "controlling_person"}

Components == {"AddressComponent", "PhoneComponent", "ControllingPersonComponent"}

None == "None"

EmptyRegistry == [n \in {} |-> None]

\* register_component(name, component): _REGISTRY[name] = component
register_component(r, name, component) == Put(r, name, component)

\* get_component(name): _REGISTRY.get(name)
get_component(r, name) == Get(r, name, None)

\* a variant that hands out the live mapping
get_component_registry_live(r) == [live |-> TRUE, entries |-> r]

\* get_component_registry(): _REGISTRY.copy(), a mapping of its own that
\* starts with the registry's entries
get_component_registry(r) == [live |-> FALSE, entries |-> r]

\* the entries a caller sees through the mapping it holds
Entries(h, r) == IF h.live THEN r ELSE h.entries

\* the registry once the package is imported
Imported ==
    /\ _REGISTRY = register_component(
                      register_component(EmptyRegistry, "address", "AddressComponent"),
                      "phone", "PhoneComponent")
    /\ registered = _REGISTRY
    /\ held = << >>
    /\ got = << >>

\* no function has been called
\* AttachmentCollector.__init__: self.attachments = []
NoAttachments ==
    /\ attachments = << >>
    /\ added = << >>

NoCall ==
    /\ arg = << >>
    /\ result = << >>

\* the local variables of a run of the submit page before any is assigned
NoLocals ==
    [errors |-> << >>, answers |-> << >>, pdf_bytes |-> << >>,
     email |-> << >>, csv_string |-> << >>]

\* no run of the submit page has started
NoRun ==
    /\ pc = "idle"
    /\ calls = << >>
    /\ shown = << >>
    /\ locals = NoLocals

\* the process after start-up, before any session activity
Started ==
    /\ store = NoStore
    /\ errors = << >>
    /\ payload = << >>
    /\ edits = 0
    /\ NoRun
    /\ runs = 0
    /\ Imported
    /\ NoAttachments

Init ==
    /\ Started
    /\ NoCall

\* persist_number_input on the count key (min_value=0, step=1): one step up or
\* down, followed by the rerun's render pass
SetCount ==
    /\ edits < MaxEdits
    /\ \E n \in 0..MaxCount :
          /\ n \in {Get(store, count_key, 0) + 1, Get(store, count_key, 0) - 1}
          /\ store' = render(Put(store, count_key, n))
    /\ edits' = edits + 1
    /\ errors' = << >>
    /\ payload' = << >>
    /\ UNCHANGED <<pc, calls, shown, locals, runs>>
    /\ UNCHANGED <<registryState, callState, collectorState>>

\* one persist_* widget of a drawn record changes, followed by the rerun's render pass
EditWidget ==
    /\ edits < MaxEdits
    /\ \E i \in 0..(MaxCount - 1), field \in Range(RenderFields) :
          /\ Drawn(store, field, i)
          /\ \E v \in WidgetValues(field) :
                store' = render(Put(store, RenderKey(field, i), v))
    /\ edits' = edits + 1
    /\ errors' = << >>
    /\ payload' = << >>
    /\ UNCHANGED <<pc, calls, shown, locals, runs>>
    /\ UNCHANGED <<registryState, callState, collectorState>>

\* a variant of the call in which validate reads the count with setdefault
ValidateCall_setdefault ==
    /\ \E call \in ValidateCalls :
          errors' = <<[dev |-> call.dev, cfg |-> call.cfg,
                       list |-> validate(store, call.cfg, call.dev)]>>
    /\ store' = IF count_key \in DOMAIN store THEN store ELSE Put(store, count_key, 0)
    /\ UNCHANGED <<payload, edits, pc, calls, shown, locals, runs>>
    /\ UNCHANGED <<registryState, callState, collectorState>>

\* a call of validate(ns, instance_id, **config) in a process whose
\* is_dev_mode() returns dev
ValidateCall ==
    /\ \E call \in ValidateCalls :
          errors' = <<[dev |-> call.dev, cfg |-> call.cfg,
                       list |-> validate(store, call.cfg, call.dev)]>>
    /\ UNCHANGED <<store, payload, edits, pc, calls, shown, locals, runs>>
    /\ UNCHANGED <<registryState, callState, collectorState>>

\* a call of serialize(ns, instance_id, **config)
SerializeCall ==
    /\ payload' = <<serialize(store)>>
    /\ UNCHANGED <<store, errors, edits, pc, calls, shown, locals, runs>>
    /\ UNCHANGED <<registryState, callState, collectorState>>

NextCP == SetCount \/ EditWidget \/ ValidateCall \/ SerializeCall

SpecCP == Init /\ [][NextCP]_vars

----------------------------------------------------------------------------
(* The FormSpec registry and the form engine *)

\* the number of leading sections of SPEC that the model carries
NumSections == 2

Field(id, label, required) == [id |-> id, label |-> label, required |-> required]

Section(title, fields) == [title |-> title, fields |-> fields]

\* the leading sections of SPEC; every later research section has the shape of
\* the second one: a required Likert select followed by optional text areas
SPEC_sections ==
    << Section("Participant Characterization (referring to you, not EasyAI)",
          << Field("investment_experience_years",
                   "How many years of investment experience do you have?", TRUE),
             Field("investment_proficiency",
                   "Investment Proficiency Self-Assessment", TRUE),
             Field("investment_frequency",
                   "What is your investment decision frequency?", TRUE),
             Field("portfolio_complexity", "Portfolio Complexity", TRUE) >>),
       Section("Prescriptive Knowledge",
          << Field("prescriptive_structured",
                   "Did you see structured recommendations (including timely data, risk indicators, etc.) that guided your decision-making?",
                   TRUE),
             Field("prescriptive_missing",
                   "Describe any missing or unclear elements in the recommendations.",
                   FALSE) >>),
       Section("Human vs. Non-Human Actors",
          << Field("human_explanations",
                   "Did the system provide meaningful explanations for its recommendations and clearly indicate when human intervention might be required?",
                   TRUE),
             Field("human_difficulties",
                   "Mention any difficulties in understanding or trusting the system's explanations.",
                   FALSE) >>),
       Section("Complexity and Decomposition",
          << Field("complexity_components",
                   "Were you aware of the different components (risk profiling, data retrieval, disclaimers) used to generate advice?",
                   TRUE),
             Field("complexity_improvements",
                   "Suggest improvements for additional clarity or decomposition.",
                   FALSE) >>) >>

SPEC ==
    [name |-> "investment_research",
     title |-> "Investment Decision-Making Research Survey",
     sections |-> SubSeq(SPEC_sections, 1,
                         IF NumSections < Len(SPEC_sections)
                         THEN NumSections ELSE Len(SPEC_sections))]

\* SPECS: the registry of FormSpecs by name
SPECS == [n \in {"investment_research"} |-> SPEC]

\* app.utils.ns_key(namespace, field_id)
ns_key(ns, field_id) == ns \o "__" \o field_id

\* app.utils.is_dev_mode(): the development-mode flag of the session
is_dev_mode(s) == Get(s, "dev_mode", FALSE)

\* app.utils.current_namespace(): the namespace of the selected survey
current_namespace(s) == Get(s, "survey_type", "")

\* the fields of a FormSpec, section by section
AllFields(spec) ==
    UNION {Range(spec.sections[k].fields) : k \in 1..Len(spec.sections)}

\* engine.validate on one plain section: one error per required field whose
\* value is empty, in field order
RequiredErrors(s, ns, section) ==
    LET missing(f) == f.required /\ Get(s, ns_key(ns, f.id), EmptyStr) = EmptyStr
        found == SelectSeq(section.fields, missing)
    IN  [j \in 1..Len(found) |->
            section.title \o "." \o found[j].label \o " is required"]

RECURSIVE SectionErrors(_, _, _, _)
SectionErrors(s, ns, sections, k) ==
    IF k > Len(sections)
    THEN << >>
    ELSE RequiredErrors(s, ns, sections[k]) \o SectionErrors(s, ns, sections, k + 1)

\* app.forms.engine.validate(spec, ns): every section is evaluated; in
\* development mode the result is empty
engine_validate(spec, ns, s) ==
    IF is_dev_mode(s) THEN << >> ELSE SectionErrors(s, ns, spec.sections, 1)

\* engine.serialize_answers on one plain section: field label -> raw value, a
\* missing value as the empty string
SectionPayload(s, ns, section) ==
    [l \in {f.label : f \in Range(section.fields)} |->
        LET f == CHOOSE g \in Range(section.fields) : g.label = l
        IN  Get(s, ns_key(ns, f.id), EmptyStr)]

\* app.forms.engine.serialize_answers(spec, ns)
serialize_answers(spec, ns, s) ==
    [answers |->
        [t \in {spec.sections[k].title : k \in 1..Len(spec.sections)} |->
            LET sec == CHOOSE c \in Range(spec.sections) : c.title = t
            IN  SectionPayload(s, ns, sec)],
     uploads |-> << >>]

----------------------------------------------------------------------------
(* The submit page and handle_submission *)

AcceptMessage == "Please accept the declaration before submitting."

ResolveHeader == "Please resolve the following issues:"

\* main() selected the survey and recorded its title; the consent page
\* recorded the participant's name
AfterMain ==
    ("survey_type" :> NS) @@ ("survey_display_name" :> SPEC.title)
        @@ ("consent_name" :> "Participant")

\* the survey types a session may carry: the registered FormSpec, and a
\* FormSpec of the repository that SPECS does not hold
SurveyTypes == {NS, "church"}

\* the questionnaire with every field answered
AllAnswered == [k \in {ns_key(NS, f.id) : f \in AllFields(SPEC)} |-> X]

\* feedback left by the participant
Feedback == [submitted |-> TRUE, message |-> "feedback"]

\* the sessions in which the participant opens the submit page
Sessions ==
    {("survey_type" :> survey) @@ AfterMain @@ answers @@ fb @@ dev :
        survey \in SurveyTypes,
        answers \in {NoStore, AllAnswered},
        fb \in {NoStore, "feedback_data" :> Feedback},
        dev \in {NoStore, "dev_mode" :> TRUE}}

InitSubmit ==
    /\ store \in Sessions
    /\ errors = << >>
    /\ payload = << >>
    /\ edits = 0
    /\ NoRun
    /\ runs = 0
    /\ Imported
    /\ NoAttachments
    /\ NoCall

\* no run is in progress: the script has finished or stopped
Quiescent == pc \in {"idle", "Stopped", "Blocked", "Submitted"}

\* a widget interaction reruns the script with the Submit button not clicked
Rerun ==
    /\ pc' = "idle"
    /\ calls' = << >>
    /\ shown' = << >>
    /\ locals' = NoLocals

\* the participant changes one answer of the questionnaire
AnswerField ==
    /\ Quiescent
    /\ edits < MaxEdits
    /\ \E f \in AllFields(SPEC), v \in {EmptyStr, X} :
          /\ Get(store, ns_key(NS, f.id), EmptyStr) # v
          /\ store' = Put(store, ns_key(NS, f.id), v)
    /\ edits' = edits + 1
    /\ Rerun
    /\ runs' = 0
    /\ UNCHANGED <<errors, payload>>
    /\ UNCHANGED <<registryState, callState, collectorState>>

\* persist_checkbox(..., "accept"): the declaration checkbox is toggled
ToggleAccept ==
    /\ Quiescent
    /\ edits < MaxEdits
    /\ store' = Put(store, "accept", ~Get(store, "accept", FALSE))
    /\ edits' = edits + 1
    /\ Rerun
    /\ UNCHANGED <<errors, payload, runs>>
    /\ UNCHANGED <<registryState, callState, collectorState>>

\* a click on "Submit Survey": the run reaches the button only with a survey
\* selected, and passes it only with the declaration accepted
SubmitClick ==
    /\ Quiescent
    /\ runs < MaxRuns
    /\ Get(store, "survey_type", "") # ""
    /\ calls' = << >>
    /\ locals' = NoLocals
    /\ IF ~Get(store, "accept", FALSE)
       THEN /\ shown' = <<AcceptMessage>>
            /\ pc' = "Stopped"
       ELSE /\ shown' = << >>
            /\ pc' = "reconstruct_payload"
    /\ UNCHANGED <<store, errors, payload, edits, runs>>
    /\ UNCHANGED <<registryState, callState, collectorState>>

\* a variant of the lookup that falls back to the registered FormSpec
SPECS_get_default(ns) == IF ns \in DOMAIN SPECS THEN <<SPECS[ns]>> ELSE <<SPEC>>

\* SPECS.get(ns): << >> stands for None
SPECS_get(ns) == IF ns \in DOMAIN SPECS THEN <<SPECS[ns]>> ELSE << >>

\* the metadata reconstruct_payload attaches to the serialized answers
Attach(answers, s) ==
    (IF "feedback_data" \in DOMAIN s
     THEN "Feedback" :> s["feedback_data"] ELSE NoStore)
    @@ ("Declaration" :>
           (("Declaration Accepted" :> Get(s, "accept", FALSE))
            @@ ("Informed Consent Signed By" :> Get(s, "consent_name", ""))))
    @@ ("Survey Type" :> Get(s, "survey_display_name", "Survey"))
    @@ answers

\* a variant of reconstruct_payload that shows the errors and carries on
reconstruct_payload_continue ==
    /\ pc = "reconstruct_payload"
    /\ LET ns == current_namespace(store)
           errs == engine_validate(SPECS[ns], ns, store)
           out == serialize_answers(SPECS[ns], ns, store)
       IN  /\ ns \in DOMAIN SPECS
           /\ ~is_dev_mode(store)
           /\ calls' = calls \o <<"validate", "serialize_answers">>
           /\ shown' = IF errs = << >> THEN shown
                       ELSE shown \o <<ResolveHeader>> \o errs
           /\ locals' = [locals EXCEPT
                            !.errors = errs,
                            !.answers = <<[answers |-> Attach(out.answers, store),
                                           uploads |-> out.uploads]>>]
           /\ pc' = "handle_submission"
    /\ UNCHANGED <<store, errors, payload, edits, runs>>
    /\ UNCHANGED <<registryState, callState, collectorState>>

\* reconstruct_payload(): look up the FormSpec, validate unless development
\* mode is on, stop on errors, otherwise serialize and attach the metadata
reconstruct_payload ==
    /\ pc = "reconstruct_payload"
    /\ LET ns == current_namespace(store)
           skip_validation == is_dev_mode(store)
           spec == SPECS_get(ns)
       IN  IF spec = << >>
           THEN /\ shown' = shown \o
                      <<IF DOMAIN SPECS = {}
                        THEN "No surveys are configured. Please add survey specifications."
                        ELSE "Survey type '" \o ns \o "' is not configured.">>
                /\ pc' = "Stopped"
                /\ UNCHANGED <<calls, locals>>
           ELSE LET errs == IF skip_validation THEN << >>
                            ELSE engine_validate(spec[1], ns, store)
                    validated == IF skip_validation THEN calls
                                 ELSE Append(calls, "validate")
                    out == serialize_answers(spec[1], ns, store)
                IN  IF errs # << >>
                    THEN /\ calls' = validated
                         /\ shown' = shown \o <<ResolveHeader>> \o errs
                         /\ locals' = [locals EXCEPT !.errors = errs]
                         /\ pc' = "Blocked"
                    ELSE /\ calls' = Append(validated, "serialize_answers")
                         /\ shown' = shown
                         /\ locals' = [locals EXCEPT
                               !.answers = <<[answers |-> Attach(out.answers, store),
                                              uploads |-> out.uploads]>>]
                         /\ pc' = "handle_submission"
    /\ UNCHANGED <<store, errors, payload, edits, runs>>
    /\ UNCHANGED <<registryState, callState, collectorState>>

\* a variant of handle_submission without the try/except around make_pdf:
\* the exception ends the run
handle_submission_abort ==
    /\ pc = "handle_submission"
    /\ Get(store, "accept", FALSE)
    /\ \E pdf_ok \in BOOLEAN, sent \in BOOLEAN, csv_ok \in BOOLEAN :
          IF ~pdf_ok
          THEN /\ calls' = Append(calls, "make_pdf")
               /\ pc' = "Stopped"
               /\ UNCHANGED <<store, shown, locals, runs>>
          ELSE /\ calls' = calls \o
                     <<"make_pdf", "send_submission_email",
                       "make_investment_research_csv">>
               /\ locals' = [locals EXCEPT
                     !.pdf_bytes = <<"pdf">>,
                     !.email = <<IF sent THEN "sent" ELSE "failed">>,
                     !.csv_string = IF csv_ok THEN <<"csv">> ELSE << >>]
               /\ store' = Remove(store, "feedback_data")
               /\ shown' = shown
                     \o <<"Download PDF Report">>
                     \o (IF csv_ok THEN <<"Download CSV Data">> ELSE << >>)
                     \o <<"Submit Another Survey">>
               /\ pc' = "Submitted"
               /\ runs' = runs + 1
    /\ UNCHANGED <<errors, payload, edits>>
    /\ UNCHANGED <<registryState, callState, collectorState>>

\* handle_submission(answers, uploaded_files): make_pdf may raise; the email
\* call returns whether or not the message went out; the CSV maker may raise
handle_submission ==
    /\ pc = "handle_submission"
    /\ IF ~Get(store, "accept", FALSE)
       THEN /\ shown' = shown \o <<AcceptMessage>>
            /\ pc' = "Stopped"
            /\ UNCHANGED <<store, calls, locals, runs>>
       ELSE \E pdf_ok \in BOOLEAN, sent \in BOOLEAN, csv_ok \in BOOLEAN :
               /\ calls' = calls \o
                     <<"make_pdf", "send_submission_email",
                       IF Get(store, "survey_type", "") = "investment_research"
                       THEN "make_investment_research_csv" ELSE "make_csv">>
               /\ locals' = [locals EXCEPT
                     !.pdf_bytes = IF pdf_ok THEN <<"pdf">> ELSE << >>,
                     !.email = <<IF sent THEN "sent" ELSE "failed">>,
                     !.csv_string = IF csv_ok THEN <<"csv">> ELSE << >>]
               /\ store' = Remove(store, "feedback_data")
               /\ shown' = shown
                     \o (IF is_dev_mode(store)
                         THEN <<"Development Mode Debug Info">> ELSE << >>)
                     \o (IF pdf_ok THEN <<"Download PDF Report">> ELSE << >>)
                     \o (IF csv_ok THEN <<"Download CSV Data">> ELSE << >>)
                     \o <<"Submit Another Survey">>
               /\ pc' = "Submitted"
               /\ runs' = runs + 1
    /\ UNCHANGED <<errors, payload, edits>>
    /\ UNCHANGED <<registryState, callState, collectorState>>

\* the session-store keys of the FormSpec's namespace
NamespacedKeys == {ns_key(NS, f.id) : f \in AllFields(SPEC)}

\* key.startswith(prefix), over the keys of the session store
startswith(s, key, prefix) ==
    \E tail \in DOMAIN s \cup {"__" \o f.id : f \in AllFields(SPEC)} \cup {""} :
       key = prefix \o tail

\* "__" in key
HasSeparator(key) == key \in NamespacedKeys

\* the body under the "Submit Another Survey" button: delete every key that
\* starts with the survey type and holds "__", then set accept to False
reset_session(s) ==
    LET doomed == {k \in DOMAIN s :
                      startswith(s, k, Get(s, "survey_type", "")) /\ HasSeparator(k)}
    IN  Put([k \in DOMAIN s \ doomed |-> s[k]], "accept", FALSE)

\* a click on "Submit Another Survey": the script reruns; st.button("Submit
\* Survey") is True only in the run that follows a click on it, and the reset
\* button with its body sits inside handle_submission under that condition
SubmitAnotherSurvey ==
    /\ pc = "Submitted"
    /\ LET submit_button == FALSE
       IN  store' = IF submit_button THEN reset_session(store) ELSE store
    /\ Rerun
    /\ runs' = 0
    /\ UNCHANGED <<errors, payload, edits>>
    /\ UNCHANGED <<registryState, callState, collectorState>>

NextSubmit ==
    \/ AnswerField
    \/ ToggleAccept
    \/ SubmitClick
    \/ reconstruct_payload
    \/ handle_submission
    \/ SubmitAnotherSurvey

SpecSubmit == InitSubmit /\ [][NextSubmit]_vars

----------------------------------------------------------------------------
(* The component registry under its callers *)

\* a call of register_component(name, component)
RegisterComponent ==
    /\ \E name \in ComponentNames, component \in Components :
          /\ _REGISTRY' = register_component(_REGISTRY, name, component)
          /\ registered' = Put(registered, name, component)
    /\ got' = << >>
    /\ UNCHANGED <<held, store, errors, payload, edits, pc, calls, shown, locals, runs, callState, collectorState>>

\* a call of get_component(name)
GetComponent ==
    /\ \E name \in ComponentNames :
          got' = <<[name |-> name, component |-> get_component(_REGISTRY, name)]>>
    /\ UNCHANGED <<_REGISTRY, held, registered>>
    /\ UNCHANGED <<store, errors, payload, edits, pc, calls, shown, locals, runs, callState, collectorState>>

\* a call of get_component_registry(); the caller keeps the mapping
GetComponentRegistry ==
    /\ held' = <<get_component_registry(_REGISTRY)>>
    /\ UNCHANGED <<_REGISTRY, got, registered>>
    /\ UNCHANGED <<store, errors, payload, edits, pc, calls, shown, locals, runs, callState, collectorState>>

\* the caller writes mapping m through the mapping it holds
CallerWrites(m) ==
    IF held[1].live
    THEN /\ _REGISTRY' = m
         /\ UNCHANGED held
    ELSE /\ held' = <<[held[1] EXCEPT !.entries = m]>>
         /\ UNCHANGED _REGISTRY

\* the caller adds or replaces an entry of the mapping it holds
CallerSetsEntry ==
    /\ held # << >>
    /\ \E name \in ComponentNames, component \in Components :
          CallerWrites(Put(Entries(held[1], _REGISTRY), name, component))
    /\ UNCHANGED <<got, registered>>
    /\ UNCHANGED <<store, errors, payload, edits, pc, calls, shown, locals, runs, callState, collectorState>>

\* the caller removes an entry of the mapping it holds
CallerDeletesEntry ==
    /\ held # << >>
    /\ \E name \in DOMAIN Entries(held[1], _REGISTRY) :
          CallerWrites(Remove(Entries(held[1], _REGISTRY), name))
    /\ UNCHANGED <<got, registered>>
    /\ UNCHANGED <<store, errors, payload, edits, pc, calls, shown, locals, runs, callState, collectorState>>

NextRegistry ==
    \/ RegisterComponent
    \/ GetComponent
    \/ GetComponentRegistry
    \/ CallerSetsEntry
    \/ CallerDeletesEntry

SpecRegistry == Init /\ [][NextRegistry]_vars

----------------------------------------------------------------------------
(* send_submission_email *)

\* the longest list of uploaded files that the model follows
MaxUploads == 2

\* an entry of uploaded_files that is None
NoFile == << >>

\* uploaded files: one with a name, one without
UploadedFiles ==
    {<<[name |-> "id_document.pdf", data |-> "d1"]>>,
     <<[name |-> "", data |-> "d2"]>>}

\* the lists of uploaded files, None entries included
UploadLists ==
    UNION {[1..n -> UploadedFiles \cup {NoFile}] : n \in 0..MaxUploads}

DEFAULT_RECIPIENT == "don.kruger123@gmail.com"

\* what the call finds around it: the secrets, the session's development
\* settings, and whether the PDF maker, the CSV maker and the SMTP exchange
\* (connect, login, send) succeed
MailEnvs ==
    [credentials : BOOLEAN,
     recipient_address : {<< >>, <<"research@example.org">>},
     dev_mode : BOOLEAN,
     dev_recipient_email : {<< >>, <<"developer@example.org">>},
     pdf_ok : BOOLEAN, csv_ok : BOOLEAN, smtp_ok : BOOLEAN]

\* the answers the call is given: with and without the "Survey Type" entry
MailAnswers ==
    {"Survey Type" :> "Investment Decision-Making Research Survey",
     "Survey Type" :> "Church",
     [k \in {} |-> ""]}

\* recipient_email
Recipient(env) ==
    IF env.dev_mode
    THEN IF env.dev_recipient_email = << >>
         THEN DEFAULT_RECIPIENT ELSE env.dev_recipient_email[1]
    ELSE IF env.recipient_address = << >>
         THEN DEFAULT_RECIPIENT ELSE env.recipient_address[1]

\* a variant that attaches the files last to first
RECURSIVE UploadParts_reversed(_, _)
UploadParts_reversed(files, i) ==
    IF i > Len(files)
    THEN << >>
    ELSE UploadParts_reversed(files, i + 1)
         \o (IF files[i] = NoFile
             THEN << >>
             ELSE <<[kind |-> "upload",
                     filename |-> IF files[i][1].name # "" THEN files[i][1].name
                                  ELSE "attachment_" \o ToString(i),
                     payload |-> files[i][1].data]>>)

\* the parts for uploaded_files[i..], None entries skipped
RECURSIVE UploadParts(_, _)
UploadParts(files, i) ==
    IF i > Len(files)
    THEN << >>
    ELSE (IF files[i] = NoFile
          THEN << >>
          ELSE <<[kind |-> "upload",
                  filename |-> IF files[i][1].name # "" THEN files[i][1].name
                               ELSE "attachment_" \o ToString(i),
                  payload |-> files[i][1].data]>>)
         \o UploadParts(files, i + 1)

\* the message as it stands when the SMTP exchange starts
Message(answers, uploaded_files, env) ==
    LET survey_type == Get(answers, "Survey Type", "Unknown Survey")
    IN  [to |-> Recipient(env),
         subject |-> "New Survey Submission: " \o survey_type,
         attachments |->
            (IF env.pdf_ok
             THEN <<[kind |-> "pdf", filename |-> "Survey.pdf", payload |-> "make_pdf"]>>
             ELSE << >>)
            \o (IF env.csv_ok
                THEN <<[kind |-> "csv", filename |-> "Survey.csv",
                        payload |-> IF survey_type = "Investment Decision-Making Research Survey"
                                    THEN "make_investment_research_csv"
                                    ELSE "make_csv"]>>
                ELSE << >>)
            \o UploadParts(uploaded_files, 1)]

\* send_submission_email(answers, uploaded_files, feedback_data): the
\* messages that left through the SMTP server
send_submission_email(answers, uploaded_files, env) ==
    IF ~env.credentials
    THEN << >>
    ELSE IF env.smtp_ok
         THEN <<Message(answers, uploaded_files, env)>>
         ELSE << >>

InitEmail ==
    /\ Started
    /\ arg \in [answers : MailAnswers, uploaded_files : UploadLists, env : MailEnvs]
    /\ result = << >>

\* one call of send_submission_email
SendSubmissionEmail ==
    /\ result = << >>
    /\ result' = <<send_submission_email(arg.answers, arg.uploaded_files, arg.env)>>
    /\ UNCHANGED <<sessionState, registryState, arg, collectorState>>

NextEmail == SendSubmissionEmail

SpecEmail == InitEmail /\ [][NextEmail]_vars

----------------------------------------------------------------------------
(* make_csv *)

\* the most entries of a payload that the model follows
MaxEntries == 2

\* the most records of a repeater section that the model follows
MaxRecords == 2

\* a Python value: None, a str, an int or a bool
PyNone == [t |-> "none", s |-> "", n |-> 0, b |-> FALSE]

PyStr(s) == [t |-> "str", s |-> s, n |-> 0, b |-> FALSE]

PyInt(n) == [t |-> "int", s |-> "", n |-> n, b |-> FALSE]

PyBool(b) == [t |-> "bool", s |-> "", n |-> 0, b |-> b]

\* str(value) if value is not None else ""
str(value) ==
    CASE value.t = "none" -> ""
      [] value.t = "str" -> value.s
      [] value.t = "int" -> ToString(value.n)
      [] value.t = "bool" -> IF value.b THEN "True" ELSE "False"

\* an item of a mapping, in insertion order
Item(field, value) == [field |-> field, value |-> value]

\* the flat mappings of the payloads: field label -> value, in insertion order
FlatMappings ==
    {<< >>,
     <<Item("Entity Name", PyStr("Acme"))>>,
     <<Item("Entity Name", PyStr("Acme")), Item("Registered", PyBool(TRUE))>>,
     <<Item("Entity Name", PyNone), Item("Employees", PyInt(12))>>}

\* the records of the repeater sections
RecordMappings ==
    {<<Item("First Name", PyStr("Ann"))>>,
     <<Item("First Name", PyStr("Ben")), Item("Last Name", PyNone)>>}

\* a top-level value that is not a mapping
Scalar(value) == [kind |-> "scalar", value |-> value, fields |-> << >>, Records |-> << >>]

\* a section that is a flat mapping
Flat(fields) == [kind |-> "flat", value |-> PyNone, fields |-> fields, Records |-> << >>]

\* a section {"Count": n, "Records": records}
Repeater(records) ==
    [kind |-> "repeater", value |-> PyNone,
     fields |-> <<Item("Count", PyInt(Len(records))), Item("Records", PyNone)>>,
     Records |-> records]

\* what a payload holds under a title
SectionData ==
    {Scalar(PyStr("Investment Decision-Making Research Survey")), Scalar(PyNone)}
    \cup {Flat(m) : m \in FlatMappings}
    \cup {Repeater(r) : r \in UNION {[1..n -> RecordMappings] : n \in 0..MaxRecords}}

Titles == {"Survey Type", "Entity Details", "Directors"}

\* the payloads: mappings title -> data in insertion order, titles distinct
Payloads ==
    UNION {{p \in [1..n -> [title : Titles, data : SectionData]] :
               \A i, j \in 1..n : i # j => p[i].title # p[j].title}
           : n \in 0..MaxEntries}

Row(section, record, field, value) ==
    [Section |-> section, Record |-> record, Field |-> field, Value |-> value]

\* a variant that emits only the first item of a mapping
FieldRows_first(title, k, fields) ==
    [j \in 1..(IF Len(fields) > 1 THEN 1 ELSE Len(fields)) |->
        Row(title, k, fields[j].field, str(fields[j].value))]

\* one row per item of a mapping, under record number k
FieldRows(title, k, fields) ==
    [j \in 1..Len(fields) |-> Row(title, k, fields[j].field, str(fields[j].value))]

\* a variant that numbers the records as enumerate does, from 0
RECURSIVE RecordRows_from_zero(_, _, _)
RecordRows_from_zero(title, records, i) ==
    IF i > Len(records)
    THEN << >>
    ELSE FieldRows(title, i - 1, records[i])
         \o RecordRows_from_zero(title, records, i + 1)

\* the rows of records[i..]: record enumerate-index i - 1 gets "Record #" i
RECURSIVE RecordRows(_, _, _)
RecordRows(title, records, i) ==
    IF i > Len(records)
    THEN << >>
    ELSE FieldRows(title, i, records[i]) \o RecordRows(title, records, i + 1)

\* the rows of one entry of the payload
SectionRows(title, data) ==
    CASE data.kind = "scalar" ->
            <<Row("Submission Details", 1, title, str(data.value))>>
      [] data.kind = "repeater" ->
            IF data.Records = << >>
            THEN <<Row(title, 0, "Count", ToString(0))>>
            ELSE RecordRows(title, data.Records, 1)
      [] data.kind = "flat" ->
            LET kept(item) == item.field # "Records"
            IN  FieldRows(title, 1, SelectSeq(data.fields, kept))

\* _flatten_data(data), from entry i on
RECURSIVE _flatten_data(_, _)
_flatten_data(data, i) ==
    IF i > Len(data)
    THEN << >>
    ELSE SectionRows(data[i].title, data[i].data) \o _flatten_data(data, i + 1)

Header == Row("Section", "Record #", "Field", "Value")

\* make_csv(payload): the header row, then the flattened rows
make_csv(answers) == <<Header>> \o _flatten_data(answers, 1)

InitCsv ==
    /\ Started
    /\ arg \in Payloads
    /\ result = << >>

\* one call of make_csv
MakeCsv ==
    /\ result = << >>
    /\ result' = <<make_csv(arg)>>
    /\ UNCHANGED <<sessionState, registryState, arg, collectorState>>

NextCsv == MakeCsv

SpecCsv == InitCsv /\ [][NextCsv]_vars

----------------------------------------------------------------------------
(* AttachmentMetadata.generate_filename *)

UpperCase == <<"A","B","C","D","E","F","G","H","I","J","K","L","M","N","O","P","Q","R","S","T","U","V","W","X","Y","Z">>
LowerCase == <<"a","b","c","d","e","f","g","h","i","j","k","l","m","n","o","p","q","r","s","t","u","v","w","x","y","z">>
Letters ==
    {UpperCase[k] : k \in 1..Len(UpperCase)} \cup {LowerCase[k] : k \in 1..Len(LowerCase)}

\* str.lower()
lower(s) ==
    [i \in 1..Len(s) |->
        IF \E k \in 1..Len(UpperCase) : UpperCase[k] = s[i]
        THEN LowerCase[CHOOSE k \in 1..Len(UpperCase) : UpperCase[k] = s[i]]
        ELSE s[i]]

\* the characters that re.sub(r'[^a-zA-Z0-9_\s-]', '', text) keeps
KeptChars == Letters \cup Digits \cup {"_", "-"} \cup Whitespace

\* re.sub(r'[class]+', '_', s): every maximal run of characters of the class
\* becomes one underscore
sub_runs(s, class) ==
    LET marked == [i \in 1..Len(s) |->
                      IF s[i] \notin class THEN s[i]
                      ELSE IF i > 1 /\ s[i - 1] \in class THEN "" ELSE "_"]
        Written(c) == c # ""
    IN  SelectSeq(marked, Written)

RECURSIVE lstrip_chars(_, _)
lstrip_chars(s, chars) ==
    IF s # << >> /\ Head(s) \in chars THEN lstrip_chars(Tail(s), chars) ELSE s

\* str.rstrip(chars)
RECURSIVE rstrip_chars(_, _)
rstrip_chars(s, chars) ==
    IF s # << >> /\ s[Len(s)] \in chars
    THEN rstrip_chars(SubSeq(s, 1, Len(s) - 1), chars)
    ELSE s

\* str.strip(chars)
strip_chars(s, chars) == rstrip_chars(lstrip_chars(s, chars), chars)

\* a sanitizer that leaves the underscores at the ends in place
_sanitize_filename_part_unstripped(text) ==
    IF text = << >> THEN << >>
    ELSE LET Kept(c) == c \in KeptChars
             removed == SelectSeq(text, Kept)
             replaced == sub_runs(removed, Whitespace \cup {"-"})
         IN  sub_runs(replaced, {"_"})

_sanitize_filename_part(text) ==
    IF text = << >> THEN << >>
    ELSE LET Kept(c) == c \in KeptChars
             removed == SelectSeq(text, Kept)
             replaced == sub_runs(removed, Whitespace \cup {"-"})
             collapsed == sub_runs(replaced, {"_"})
         IN  strip_chars(collapsed, {"_"})

\* sep.join(parts)
RECURSIVE join(_, _)
join(sep, parts) ==
    IF parts = << >> THEN << >>
    ELSE IF Len(parts) = 1 THEN parts[1]
    ELSE parts[1] \o sep \o join(sep, Tail(parts))

\* the limit of the base name
BaseLimit == 200

Document == <<"D","o","c","u","m","e","n","t">>
bin == <<"b","i","n">>

\* original_name.split('.')[-1]
LastPiece(name) ==
    LET dots == {i \in 1..Len(name) : name[i] = "."}
        last == CHOOSE i \in dots : \A j \in dots : j <= i
    IN  SubSeq(name, last + 1, Len(name))

\* the extension, taken from the original file name
Extension(original_name) ==
    IF \E i \in 1..Len(original_name) : original_name[i] = "."
    THEN lower(LastPiece(original_name))
    ELSE bin

\* parts.append(self._sanitize_filename_part(text)) under "if text"
Part(text) == IF text # << >> THEN <<_sanitize_filename_part(text)>> ELSE << >>

generate_filename(self) ==
    LET parts == Part(self.entity_context) \o Part(self.section_title)
                     \o Part(self.person_identifier) \o Part(self.document_type)
        NonEmpty(part) == part # << >>
        joined == join(<<"_">>, SelectSeq(parts, NonEmpty))
        named == IF joined = << >> THEN Document ELSE joined
        filename_base == IF Len(named) > BaseLimit
                         THEN rstrip_chars(SubSeq(named, 1, BaseLimit), {"_"})
                         ELSE named
    IN  filename_base \o <<".">> \o Extension(self.file.name)

\* a run of n copies of one character
Run(c, n) == [i \in 1..n |-> c]

Acme_Corp_Company == <<"A","c","m","e","_","C","o","r","p","_","C","o","m","p","a","n","y">>
Company_Directors == <<"C","o","m","p","a","n","y"," ","D","i","r","e","c","t","o","r","s">>
John_Smith_Director_1 == <<"J","o","h","n","_","S","m","i","t","h","_","D","i","r","e","c","t","o","r","_","1">>
SA_ID_Document == <<"S","A","_","I","D","_","D","o","c","u","m","e","n","t">>
scan_pdf == <<"s","c","a","n",".","p","d","f">>

\* the entity context the collector built: nothing, a context, one that still
\* needs cleaning, and two of about the length of the limit
EntityContexts ==
    {EmptyStr, Acme_Corp_Company, <<"-","A","c","m","e"," "," ","C","o","r","p"," ","(","P","t","y",")","-">>,
     Run("a", BaseLimit + 1), Run("a", BaseLimit - 1)}

SectionTitles == {EmptyStr, Company_Directors, <<" ","-"," ","_"," ","-">>}

PersonIdentifiers == {EmptyStr, John_Smith_Director_1, <<"O","'","C","o","n","n","o","r"," ","&"," ","C","o",".">>}

DocumentTypes == {EmptyStr, SA_ID_Document, <<"(","#","!",")">>}

\* the names of the uploaded file
FileNames == {scan_pdf, <<"S","c","a","n",".","P","D","F">>, <<"s","c","a","n">>, <<"s","c","a","n",".">>, <<"i","d",".","f","r","o","n","t",".","J","P","G">>}

Attachments ==
    [file : [name : FileNames], section_title : SectionTitles,
     document_type : DocumentTypes, person_identifier : PersonIdentifiers,
     entity_context : EntityContexts]

InitFilename ==
    /\ Started
    /\ arg \in Attachments
    /\ result = << >>

\* one call of generate_filename
GenerateFilename ==
    /\ result = << >>
    /\ result' = <<generate_filename(arg)>>
    /\ UNCHANGED <<sessionState, registryState, arg, collectorState>>

NextFilename == GenerateFilename

SpecFilename == InitFilename /\ [][NextFilename]_vars

----------------------------------------------------------------------------
(* create_person_identifier *)

\* the largest index of a person that the model follows
MaxIndex == 11

\* [a-zA-Z0-9]
Alphanumeric == Letters \cup Digits

\* re.sub(r'[^a-zA-Z0-9]', '', s)
remove_others(s) ==
    LET Kept(c) == c \in Alphanumeric
    IN  SelectSeq(s, Kept)

\* re.sub(r'[^a-zA-Z0-9]', '_', s)
replace_others(s) == [i \in 1..Len(s) |-> IF s[i] \in Alphanumeric THEN s[i] ELSE "_"]

\* str(index) in an f-string, for an index that is not negative
RECURSIVE format_int(_)
format_int(n) ==
    IF n < 10 THEN <<DigitChar[n + 1]>>
    ELSE Append(format_int(n \div 10), DigitChar[(n % 10) + 1])

\* an identifier that always writes both names
create_person_identifier_both(first_name, last_name, role, index) ==
    remove_others(strip(first_name)) \o <<"_">> \o remove_others(strip(last_name))
        \o <<"_">> \o replace_others(strip(role)) \o <<"_">> \o format_int(index)

create_person_identifier(first_name, last_name, role, index) ==
    LET first == remove_others(strip(first_name))
        last == remove_others(strip(last_name))
        role_clean == replace_others(strip(role))
        tail == role_clean \o <<"_">> \o format_int(index)
    IN  IF first # << >> /\ last # << >> THEN first \o <<"_">> \o last \o <<"_">> \o tail
        ELSE IF first # << >> THEN first \o <<"_">> \o tail
        ELSE IF last # << >> THEN last \o <<"_">> \o tail
        ELSE tail

Mary_Jane == <<"M","a","r","y","-","J","a","n","e">>
OConnor == <<"O","'","C","o","n","n","o","r">>
Auth_Rep == <<"A","u","t","h"," ","R","e","p">>

FirstNames == {EmptyStr, <<"J","o","h","n">>, Mary_Jane, Blank, <<"-","-">>}
LastNames == {EmptyStr, <<"S","m","i","t","h">>, OConnor, <<"'">>}
Roles == {EmptyStr, Director, Auth_Rep, <<"(","D","i","r","e","c","t","o","r",")">>, <<"D","i","r","e","c","t","o","r"," ">>}

PersonArgs ==
    [first_name : FirstNames, last_name : LastNames, role : Roles, index : 1..MaxIndex]

InitPerson ==
    /\ Started
    /\ arg \in PersonArgs
    /\ result = << >>

\* one call of create_person_identifier
CreatePersonIdentifier ==
    /\ result = << >>
    /\ result' = <<create_person_identifier(arg.first_name, arg.last_name, arg.role, arg.index)>>
    /\ UNCHANGED <<sessionState, registryState, arg, collectorState>>

NextPerson == CreatePersonIdentifier

SpecPerson == InitPerson /\ [][NextPerson]_vars

----------------------------------------------------------------------------
(* The informed-consent page and the consent gate of main()               *)
(* app.utils.persist_checkbox and persist_text_input return the value the  *)
(* session store holds under their key (False and "" when absent), the     *)
(* user's edit having been written to the store before the run.            *)

\* the reruns of one chain that the model follows
MaxReruns == 4

\* consent_items (the keys)
consent_items ==
    <<"understand_voluntary", "understand_purpose", "understand_academic",
      "understand_anonymous", "understand_questions", "understand_risks",
      "consent_participate">>

ConsentKeys == {consent_items[k] : k \in 1..Len(consent_items)}

\* app.utils.persist_checkbox(label, key), as a run of the page sees it
persist_checkbox(s, key) == Get(s, key, FALSE)

\* app.utils.persist_text_input(label, key), as a run of the page sees it
persist_text_input(s, key) == Get(s, key, EmptyStr)

\* for key, _ in consent_items: st.session_state[key] = value
RECURSIVE SetItems(_, _, _)
SetItems(s, k, value) ==
    IF k > Len(consent_items) THEN s
    ELSE SetItems(Put(s, consent_items[k], value), k + 1, value)

\* all(st.session_state.get(key, False) for key, _ in consent_items)
AllItems(s) == \A key \in ConsentKeys : Get(s, key, FALSE)

\* what a run of a page leaves: the store, whether it asked for a rerun, and
\* what it drew or called
Outcome(s, rerun, drawn) == [store |-> s, rerun |-> rerun, shown |-> drawn]

\* an 'Accept All' handling in which unchecking leaves the items as they are
accept_all_handling_keep(s) ==
    LET accept_all == persist_checkbox(s, "accept_all_consents")
        processed == Get(s, "accept_all_processed", FALSE)
    IN  IF accept_all /\ ~processed
        THEN Outcome(Put(SetItems(s, 1, TRUE), "accept_all_processed", TRUE), TRUE, << >>)
        ELSE IF ~accept_all /\ processed
        THEN Outcome(Put(s, "accept_all_processed", FALSE), TRUE, << >>)
        ELSE Outcome(s, FALSE, << >>)

\* the 'Accept All' handling
accept_all_handling(s) ==
    LET accept_all == persist_checkbox(s, "accept_all_consents")
        processed == Get(s, "accept_all_processed", FALSE)
    IN  IF accept_all /\ ~processed
        THEN Outcome(Put(SetItems(s, 1, TRUE), "accept_all_processed", TRUE), TRUE, << >>)
        ELSE IF ~accept_all /\ processed
        THEN Outcome(Put(SetItems(s, 1, FALSE), "accept_all_processed", FALSE), TRUE, << >>)
        ELSE Outcome(s, FALSE, << >>)

\* a check of the items that ticks 'Accept All' whenever all items are checked
items_match_accept_all_always(s) ==
    IF AllItems(s)
    THEN Outcome(Put(s, "accept_all_consents", TRUE), TRUE, << >>)
    ELSE Outcome(s, FALSE, << >>)

\* "Check if individual items match accept_all state"
items_match_accept_all(s) ==
    LET accept_all == persist_checkbox(s, "accept_all_consents")
        individual_all_checked == AllItems(s)
    IN  IF individual_all_checked /\ ~accept_all
        THEN Outcome(Put(s, "accept_all_consents", TRUE), TRUE, << >>)
        ELSE IF /\ ~individual_all_checked
                /\ accept_all
                /\ ~Get(s, "accept_all_processed", FALSE)
        THEN Outcome(Put(s, "accept_all_consents", FALSE), TRUE, << >>)
        ELSE Outcome(s, FALSE, << >>)

\* datetime.now().strftime(...): the model has one instant
current_date == "now"

\* the end of the consent page: consent is recorded and the Begin button
\* drawn, or the notice is drawn
record_consent(s) ==
    LET full_name == persist_text_input(s, "consent_full_name")
        email == persist_text_input(s, "consent_email")
        all_consents_given == \A key \in ConsentKeys : persist_checkbox(s, key)
    IN  IF full_name # EmptyStr /\ email # EmptyStr /\ all_consents_given
        THEN Outcome(Put(Put(Put(Put(s, "consent_given", TRUE), "consent_name", full_name),
                             "consent_email", email), "consent_date", current_date),
                     FALSE, <<"begin_button">>)
        ELSE Outcome(s, FALSE, <<"complete_notice">>)

\* one run of pages/1_Informed_Consent.py
consent_page(s0) ==
    LET s == Put(s0, "current_page", "consent")
        handled == accept_all_handling(s)
        matched == items_match_accept_all(s)
    IN  IF handled.rerun THEN handled
        ELSE IF matched.rerun THEN matched
        ELSE record_consent(s)

\* a main() that draws the questionnaire whatever the store holds
main_ungated(s0) ==
    LET s == Put(s0, "current_page", "main")
    IN  Outcome(Put(s, "survey_type", NS), FALSE, <<"render_form">>)

\* one run of main()
main(s0) ==
    LET s == Put(s0, "current_page", "main")
    IN  IF ~Get(s, "consent_given", FALSE)
        THEN Outcome(s, FALSE, <<"consent_button">>)
        ELSE Outcome(Put(s, "survey_type", NS), FALSE, <<"render_form">>)

\* a fresh session with no page opened yet
InitConsent ==
    /\ store = NoStore
    /\ errors = << >>
    /\ payload = << >>
    /\ edits = 0
    /\ pc = "idle"
    /\ calls = << >>
    /\ shown = << >>
    /\ locals = [interaction |-> "none"]
    /\ runs = 0
    /\ Imported
    /\ NoAttachments
    /\ NoCall

\* the state after a run of a page
Ran(out, page) ==
    /\ store' = out.store
    /\ shown' = out.shown
    /\ pc' = IF out.rerun THEN "rerun" ELSE page
    /\ UNCHANGED <<errors, payload, edits, calls>>
    /\ UNCHANGED <<registryState, callState, collectorState>>

\* a user interaction on the consent page: the edit is in the store when the
\* script runs
Interaction(s, name) ==
    /\ locals' = [interaction |-> name]
    /\ runs' = 0
    /\ Ran(consent_page(s), "consent")

\* the participant opens the consent page (sidebar, or the button of main)
OpenConsent ==
    /\ pc \in {"idle", "main", "consent"}
    /\ locals' = [interaction |-> "open"]
    /\ runs' = 0
    /\ Ran(consent_page(store), "consent")

\* the participant opens the main page
OpenMain ==
    /\ pc \in {"idle", "main", "consent"}
    /\ locals' = [interaction |-> "open"]
    /\ runs' = 0
    /\ Ran(main(store), "main")

\* st.rerun(): the consent page runs again
RerunConsent ==
    /\ pc = "rerun"
    /\ runs < MaxReruns
    /\ runs' = runs + 1
    /\ UNCHANGED locals
    /\ Ran(consent_page(store), "consent")

\* the participant ticks or clears 'Accept All'
ToggleAcceptAll ==
    /\ pc = "consent"
    /\ LET checked == ~Get(store, "accept_all_consents", FALSE)
       IN  Interaction(Put(store, "accept_all_consents", checked),
                       IF checked THEN "accept_all_on" ELSE "accept_all_off")

\* the participant ticks or clears one consent item
ToggleItem ==
    /\ pc = "consent"
    /\ \E key \in ConsentKeys :
          Interaction(Put(store, key, ~Get(store, key, FALSE)), "item")

\* the participant types or clears the full name or the email
EditNameOrEmail ==
    /\ pc = "consent"
    /\ \E key \in {"consent_full_name", "consent_email"}, v \in {EmptyStr, X} :
          /\ Get(store, key, EmptyStr) # v
          /\ Interaction(Put(store, key, v), "text")

\* the Begin button: the consent page runs with the button clicked and
\* switches to main
BeginStudy ==
    /\ pc = "consent"
    /\ shown = <<"begin_button">>
    /\ locals' = [interaction |-> "begin"]
    /\ runs' = 0
    /\ LET out == consent_page(store)
       IN  IF out.rerun \/ out.shown # <<"begin_button">>
           THEN Ran(out, "consent")
           ELSE Ran(main(out.store), "main")

NextConsent ==
    \/ OpenConsent
    \/ OpenMain
    \/ RerunConsent
    \/ ToggleAcceptAll
    \/ ToggleItem
    \/ EditNameOrEmail
    \/ BeginStudy

SpecConsent == InitConsent /\ [][NextConsent]_vars

----------------------------------------------------------------------------
(* make_investment_research_csv                                            *)
(* Section titles and answers are sequences of characters here, since the  *)
(* function looks into them; field labels stay strings.                    *)

ParticipantCharacterization == 
    <<"P","a","r","t","i","c","i","p","a","n","t"," ","C","h","a","r",
      "a","c","t","e","r","i","z","a","t","i","o","n"," ","(","r","e",
      "f","e","r","r","i","n","g"," ","t","o"," ","y","o","u",","," ",
      "n","o","t"," ","E","a","s","y","A","I",")">>
AdditionalComments == 
    <<"A","d","d","i","t","i","o","n","a","l"," ","C","o","m","m","e",
      "n","t","s"," ","(","O","p","t","i","o","n","a","l",")">>
SurveyType == 
    <<"S","u","r","v","e","y"," ","T","y","p","e">>
Declaration == 
    <<"D","e","c","l","a","r","a","t","i","o","n">>
FeedbackTitle == 
    <<"F","e","e","d","b","a","c","k">>
PrescriptiveKnowledge == 
    <<"P","r","e","s","c","r","i","p","t","i","v","e"," ","K","n","o",
      "w","l","e","d","g","e">>
HumanVsNonHumanActors == 
    <<"H","u","m","a","n"," ","v","s","."," ","N","o","n","-","H","u",
      "m","a","n"," ","A","c","t","o","r","s">>
ComplexityAndDecomposition == 
    <<"C","o","m","p","l","e","x","i","t","y"," ","a","n","d"," ","D",
      "e","c","o","m","p","o","s","i","t","i","o","n">>
TypesOfCausality == 
    <<"T","y","p","e","s"," ","o","f"," ","C","a","u","s","a","l","i",
      "t","y">>
MechanismsForGoalAchievement == 
    <<"M","e","c","h","a","n","i","s","m","s"," ","f","o","r"," ","G",
      "o","a","l"," ","A","c","h","i","e","v","e","m","e","n","t">>
JustificatoryKnowledge == 
    <<"J","u","s","t","i","f","i","c","a","t","o","r","y"," ","K","n",
      "o","w","l","e","d","g","e">>
BoundaryConditions == 
    <<"B","o","u","n","d","a","r","y"," ","C","o","n","d","i","t","i",
      "o","n","s">>
Trust == 
    <<"T","r","u","s","t">>

\* SECTION_ABBREVIATIONS, in the order of the source
SECTION_ABBREVIATIONS ==
    <<[title |-> PrescriptiveKnowledge, id |-> <<"P","K">>],
      [title |-> HumanVsNonHumanActors, id |-> <<"H","N","H">>],
      [title |-> ComplexityAndDecomposition, id |-> <<"C","D">>],
      [title |-> TypesOfCausality, id |-> <<"T","C">>],
      [title |-> MechanismsForGoalAchievement, id |-> <<"M","G","A">>],
      [title |-> JustificatoryKnowledge, id |-> <<"J","K">>],
      [title |-> BoundaryConditions, id |-> <<"B","C">>],
      [title |-> Trust, id |-> <<"T">>]>>

\* str.upper()
upper(s) ==
    [i \in 1..Len(s) |->
        IF \E k \in 1..Len(LowerCase) : LowerCase[k] = s[i]
        THEN UpperCase[CHOOSE k \in 1..Len(LowerCase) : LowerCase[k] = s[i]]
        ELSE s[i]]

\* SECTION_ABBREVIATIONS.get(section_title, section_title[:3].upper())
Abbreviation(section_title) ==
    IF \E k \in 1..Len(SECTION_ABBREVIATIONS) : SECTION_ABBREVIATIONS[k].title = section_title
    THEN SECTION_ABBREVIATIONS[
             CHOOSE k \in 1..Len(SECTION_ABBREVIATIONS) :
                 SECTION_ABBREVIATIONS[k].title = section_title].id
    ELSE upper(SubSeq(section_title, 1, IF Len(section_title) < 3 THEN Len(section_title) ELSE 3))

\* the positions at which pattern occurs in value
Occurrences(value, pattern) ==
    {i \in 1..(Len(value) - Len(pattern) + 1) :
        SubSeq(value, i, i + Len(pattern) - 1) = pattern}

\* any(f"{i} -" in value for i in range(1, 6))
LooksLikeLikert(value) ==
    \E i \in 1..5 : Occurrences(value, <<DigitChar[i + 1], " ", "-">>) # {}

\* value.split(" -")[0]
BeforeFirst(value, sep) ==
    LET at == Occurrences(value, sep)
    IN  IF at = {} THEN value
        ELSE SubSeq(value, 1, (CHOOSE i \in at : \A j \in at : i <= j) - 1)

\* the loop over the fields of a section, from field k on, with the
\* likert_response and the response_text found so far
RECURSIVE ScanFields(_, _, _, _)
ScanFields(items, k, likert_response, response_text) ==
    IF k > Len(items) THEN [likert_response |-> likert_response, response_text |-> response_text]
    ELSE LET value == items[k].value
         IN  IF value.t = "none" \/ (value.t = "str" /\ value.s = EmptyStr)
             THEN ScanFields(items, k + 1, likert_response, response_text)
             ELSE IF value.t = "str" /\ LooksLikeLikert(value.s)
             THEN ScanFields(items, k + 1, BeforeFirst(value.s, <<" ", "-">>), response_text)
             ELSE IF value.t = "str"
             THEN ScanFields(items, k + 1, likert_response,
                             IF response_text # EmptyStr
                             THEN response_text \o <<";", " ">> \o value.s
                             ELSE value.s)
             ELSE ScanFields(items, k + 1, likert_response, response_text)

\* payload.get(title, default), the payload a sequence of entries in
\* insertion order
Entry(title, data) == [title |-> title, data |-> data]

Lookup(answers, title) ==
    {k \in 1..Len(answers) : answers[k].title = title}

\* participant_data.get(label, "")
GetField(items, label) ==
    LET at == {k \in 1..Len(items) : items[k].field = label}
    IN  IF at = {} THEN EmptyStr ELSE items[CHOOSE k \in at : TRUE].value.s

RECURSIVE ResearchRows(_, _)

\* the rows of the entries from entry k on
ResearchRows(answers, k) ==
    IF k > Len(answers) THEN << >>
    ELSE LET section_title == answers[k].title
             section_data == answers[k].data
             rest == ResearchRows(answers, k + 1)
         IN  IF section_title \in {SurveyType, ParticipantCharacterization, AdditionalComments}
             THEN rest
             ELSE IF section_data.kind # "flat" THEN rest
             ELSE LET found == ScanFields(section_data.fields, 1, EmptyStr, EmptyStr)
                      at == Lookup(answers, ParticipantCharacterization)
                      participant_data ==
                          IF at = {} THEN << >> ELSE answers[CHOOSE i \in at : TRUE].data.fields
                  IN  IF found.likert_response # EmptyStr \/ found.response_text # EmptyStr
                      THEN <<[question_id |-> Abbreviation(section_title),
                              response_text |-> found.response_text,
                              likert_response |-> found.likert_response,
                              experience_years |->
                                  GetField(participant_data,
                                      "How many years of investment experience do you have?"),
                              proficiency |->
                                  GetField(participant_data, "Investment Proficiency Self-Assessment"),
                              frequency |->
                                  GetField(participant_data,
                                      "What is your investment decision frequency?"),
                              complexity |-> GetField(participant_data, "Portfolio Complexity"),
                              timestamp |-> EmptyStr]>> \o rest
                      ELSE rest

\* headers
ResearchHeader ==
    <<"question_id", "response_text", "likert_response", "experience_years",
      "proficiency", "frequency", "complexity", "timestamp">>

make_investment_research_csv(answers) ==
    [header |-> ResearchHeader, rows |-> ResearchRows(answers, 1)]

\* RESEARCH_LIKERT_SCALE and TRUST_SCALE: not answered, or an option
LikertAnswers == {EmptyStr, <<"4"," ","-"," ","A","g","r","e","e">>}
TrustAnswers == {EmptyStr, <<"2"," ","-"," ","S","o","m","e","w","h","a","t"," ","U","n","t","r","u","s","t","w","o","r","t","h","y">>}

\* what a participant types in a textarea
TypedAnswers == {EmptyStr, <<"c","l","e","a","r"," ","e","n","o","u","g","h">>, <<"S","t","e","p"," ","2"," ","-"," ","w","a","s"," ","m","i","s","s","i","n","g">>}

\* serialize_answers for the investment_research FormSpec: a section is a
\* mapping from field label to the stored answer
ParticipantSection ==
    Entry(ParticipantCharacterization,
          Flat(<<Item("How many years of investment experience do you have?", PyStr(<<"1","-","3"," ","y","e","a","r","s">>)),
                 Item("Investment Proficiency Self-Assessment", PyStr(<<"C","o","m","p","e","t","e","n","t">>)),
                 Item("What is your investment decision frequency?", PyStr(<<"M","o","n","t","h","l","y">>)),
                 Item("Portfolio Complexity", PyStr(<<"S","i","m","p","l","e">>))>>))

\* a research section answered with one option and no text
Answered(title) ==
    Entry(title, Flat(<<Item("rating", PyStr(<<"3"," ","-"," ","N","e","u","t","r","a","l">>)), Item("remarks", PyStr(EmptyStr))>>))

\* the payloads reconstruct_payload hands over: the sections of the FormSpec
\* in order, then 'Survey Type', 'Declaration' and, if given, 'Feedback'
ResearchPayloads ==
    {<<ParticipantSection,
       Entry(PrescriptiveKnowledge,
             Flat(<<Item("prescriptive_structured", PyStr(pk)),
                    Item("prescriptive_missing", PyStr(pkText))>>)),
       Answered(HumanVsNonHumanActors),
       Answered(ComplexityAndDecomposition),
       Answered(TypesOfCausality),
       Answered(MechanismsForGoalAchievement),
       Answered(JustificatoryKnowledge),
       Entry(BoundaryConditions,
             Flat(<<Item("boundary_understanding", PyStr(bc)),
                    Item("boundary_features", PyStr(bcText1)),
                    Item("boundary_misunderstanding", PyStr(bcText2))>>)),
       Entry(Trust,
             Flat(<<Item("trust_insights", PyStr(tr)),
                    Item("trust_improvements", PyStr(trText))>>)),
       Entry(AdditionalComments,
             Flat(<<Item("overall_experience", PyStr(comment)),
                    Item("future_participation", PyStr(<<"Y","e","s">>))>>)),
       Entry(SurveyType, Scalar(PyStr(<<"R","e","s","e","a","r","c","h"," ","S","u","r","v","e","y">>))),
       Entry(Declaration,
             Flat(<<Item("Declaration Accepted", PyBool(TRUE)),
                    Item("Informed Consent Signed By", PyStr(consent_name))>>))>>
       \o fb :
        pk \in LikertAnswers, pkText \in TypedAnswers,
        bc \in LikertAnswers, bcText1 \in TypedAnswers, bcText2 \in {EmptyStr, <<"c","l","e","a","r"," ","e","n","o","u","g","h">>},
        tr \in TrustAnswers, trText \in {EmptyStr, <<"c","l","e","a","r"," ","e","n","o","u","g","h">>},
        comment \in {EmptyStr, <<"c","l","e","a","r"," ","e","n","o","u","g","h">>},
        consent_name \in {EmptyStr, <<"A","n","n">>},
        fb \in {<< >>,
                <<Entry(FeedbackTitle, Flat(<<Item("message", PyStr(<<"a"," ","b","i","t"," ","s","l","o","w">>))>>))>>}}

InitResearchCsv ==
    /\ Started
    /\ arg \in ResearchPayloads
    /\ result = << >>

\* one call of make_investment_research_csv
MakeInvestmentResearchCsv ==
    /\ result = << >>
    /\ result' = <<make_investment_research_csv(arg)>>
    /\ UNCHANGED <<sessionState, registryState, arg, collectorState>>

NextResearchCsv == MakeInvestmentResearchCsv

SpecResearchCsv == InitResearchCsv /\ [][NextResearchCsv]_vars

----------------------------------------------------------------------------
(* AttachmentCollector *)

\* the most attachments of the collector that the model follows
MaxAttachments == 3

\* the file handed to add_attachment: None, or an uploaded file
CollectorFiles == {NoFile, <<[name |-> scan_pdf]>>, <<[name |-> <<"i","d",".","f","r","o","n","t",".","J","P","G">>]>>}

\* AttachmentMetadata(file=..., section_title=..., ...)
AttachmentMetadata(file, section_title, document_type, person_identifier, entity_context) ==
    [file |-> file, section_title |-> section_title, document_type |-> document_type,
     person_identifier |-> person_identifier, entity_context |-> entity_context]

\* an add_attachment that appends whatever file it is given
add_attachment_any(self, file, section_title, document_type, person_identifier) ==
    Append(self,
           AttachmentMetadata(file, section_title, document_type, person_identifier,
                              Acme_Corp_Company))

\* add_attachment, self being the list self.attachments and the collector's
\* entity_context the one of the documented example
add_attachment(self, file, section_title, document_type, person_identifier) ==
    IF file # NoFile
    THEN Append(self,
                AttachmentMetadata(file, section_title, document_type, person_identifier,
                                   Acme_Corp_Company))
    ELSE self

get_attachments_for_email(self) ==
    LET HasFile(att) == att.file # NoFile
    IN  SelectSeq(self, HasFile)

get_legacy_upload_list(self) ==
    LET with_file == get_attachments_for_email(self)
    IN  [i \in 1..Len(with_file) |-> with_file[i].file]

get_attachment_count(self) == Len(get_attachments_for_email(self))

\* self.attachments.clear()
clear_attachments(self) == << >>

\* one call of add_attachment
AddAttachment ==
    /\ Len(attachments) < MaxAttachments
    /\ \E file \in CollectorFiles, section_title \in {Company_Directors, Director},
          document_type \in {SA_ID_Document, Other} :
          /\ attachments' = add_attachment(attachments, file, section_title, document_type,
                                           John_Smith_Director_1)
          /\ added' = IF file # NoFile THEN Append(added, file) ELSE added
          /\ arg' = <<[call |-> "add_attachment", file |-> file]>>
    /\ UNCHANGED <<sessionState, registryState, result>>

\* one call of clear_attachments
ClearAttachments ==
    /\ attachments' = clear_attachments(attachments)
    /\ added' = << >>
    /\ arg' = <<[call |-> "clear_attachments", file |-> NoFile]>>
    /\ UNCHANGED <<sessionState, registryState, result>>

NextCollector == AddAttachment \/ ClearAttachments

SpecCollector == Init /\ [][NextCollector]_vars

----------------------------------------------------------------------------
(* Vocabulary of the properties *)

Indices == 0..(MaxCount - 1)

\* the count the component reads from the store
StoredCount == Get(store, count_key, 0)

\* the store entry behind each serialized text field
LabelField ==
    ("First Name" :> "first_name") @@ ("Last Name" :> "last_name")
    @@ ("Country of Birth" :> "birth_country") @@ ("Role/Designation" :> "member_role")
    @@ ("Country of Tax Residence" :> "tax_residence_country")
    @@ ("TIN Option" :> "tin_option")
    @@ ("Controlling Person TIN" :> "controlling_person_tin")
    @@ ("Street Number" :> "street_number") @@ ("Unit Number" :> "unit_number")
    @@ ("Complex Name" :> "complex_name") @@ ("Street Name" :> "street_name")
    @@ ("Suburb" :> "suburb") @@ ("City" :> "city")
    @@ ("Address Country" :> "address_country") @@ ("Postal Code" :> "postal_code")

\* the 17 fields of a serialized record
RecordLabels == DOMAIN LabelField \cup {"Date of Birth", "Province/State"}

\* the value stored for a field of record i ("" when the key is absent)
Stored(field, i) == Get(store, inst_key(NS, InstanceId, Suffix(field, i)), EmptyStr)

\* the result of the last validate call made with development mode off
Validated == errors # << >> /\ ~ errors[1].dev

\* the texts of the errors the last validate call reported for record i
TextsFor(i) ==
    LET list == errors[1].list
    IN  {list[k].text : k \in {j \in DOMAIN list :
                                 list[j].prefix = Prefix(errors[1].cfg.role_label, i)}}

\* the number of errors the last validate call reported for record i
CountFor(i) ==
    LET list == errors[1].list
    IN  Cardinality({j \in DOMAIN list :
                        list[j].prefix = Prefix(errors[1].cfg.role_label, i)})

----------------------------------------------------------------------------
\* the collaborators behind the Submit button
Pipeline ==
    {"serialize_answers", "make_pdf", "send_submission_email",
     "make_csv", "make_investment_research_csv"}

\* the current run has invoked collaborator c
Invoked(c) == \E j \in DOMAIN calls : calls[j] = c

\* the current run has drawn message m
Shown(m) == \E j \in DOMAIN shown : shown[j] = m

(* C1: on the submit page a run invokes serialization, PDF/CSV generation  *)
(* or email dispatch only with the declaration checkbox 'accept' true and  *)
(* with development mode on or validate having returned no errors; a run   *)
(* in which validate returned at least one error has shown every error and *)
(* is stopped (Blocked) with none of those collaborators invoked.          *)
C1_SubmitGate ==
    /\ (\E c \in Pipeline : Invoked(c)) =>
          /\ Get(store, "accept", FALSE)
          /\ \/ is_dev_mode(store)
             \/ /\ Invoked("validate")
                /\ locals.errors = << >>
                /\ engine_validate(SPEC, NS, store) = << >>
    /\ locals.errors # << >> =>
          /\ pc = "Blocked"
          /\ \A j \in DOMAIN locals.errors : Shown(locals.errors[j])
          /\ \A c \in Pipeline : ~Invoked(c)

\* a run with development mode off that validated, found no errors and went
\* through to email dispatch
C1_Witness ==
    /\ pc = "Submitted"
    /\ ~is_dev_mode(store)
    /\ Get(store, "accept", FALSE)
    /\ calls = <<"validate", "serialize_answers", "make_pdf",
                 "send_submission_email", "make_investment_research_csv">>
    /\ locals.email = <<"sent">>

\* a run blocked by validation errors
C1_Blocked ==
    /\ pc = "Blocked"
    /\ locals.errors # << >>
    /\ calls = <<"validate">>

----------------------------------------------------------------------------
(* C2: serialize returns a payload with exactly the keys Count and Records, *)
(* Records holding exactly Count records, record k built from the store     *)
(* entries of index k-1; with the count key 0 or absent the payload is      *)
(* exactly {Count: 0, Records: []} and the uploads list is empty.           *)
C2_SerializeShape ==
    payload # << >> =>
        LET r == payload[1]
        IN  /\ DOMAIN r.payload = {"Count", "Records"}
            /\ r.payload.Count = StoredCount
            /\ Len(r.payload.Records) = r.payload.Count
            /\ \A k \in 1..Len(r.payload.Records) :
                  \A label \in DOMAIN LabelField :
                     r.payload.Records[k][label] = Stored(LabelField[label], k - 1)
            /\ r.uploads = << >>
            /\ StoredCount = 0 => r.payload = [Count |-> 0, Records |-> << >>]

\* serialize has run on a store whose count key is present and 0
C2_Witness ==
    /\ payload # << >>
    /\ count_key \in DOMAIN store
    /\ store[count_key] = 0
    /\ payload[1] = [payload |-> [Count |-> 0, Records |-> << >>], uploads |-> << >>]

----------------------------------------------------------------------------
(* C3: with development mode off, validate reports for every record: one    *)
(* postal-code error, "required", when the trimmed postal code is empty     *)
(* (whatever the country); for South Africa one error naming "4 digits"     *)
(* when the trimmed code is not exactly four digits and none when it is;    *)
(* for any other country none when the code has 1 to 10 characters.         *)
PostalTexts ==
    {" Postal Code is required.",
     " Postal Code must be exactly 4 digits for South Africa.",
     " Postal Code is invalid."}

PostalReported(i) == TextsFor(i) \cap PostalTexts

C3_PostalRules ==
    Validated =>
        \A i \in Indices : i < StoredCount =>
            LET code == strip(Stored("postal_code", i))
                country == Stored("address_country", i)
            IN  /\ Cardinality({j \in DOMAIN errors[1].list :
                       /\ errors[1].list[j].prefix = Prefix(errors[1].cfg.role_label, i)
                       /\ errors[1].list[j].text \in PostalTexts}) <= 1
                /\ code = EmptyStr =>
                      PostalReported(i) = {" Postal Code is required."}
                /\ (code # EmptyStr /\ country = SouthAfrica) =>
                      PostalReported(i) =
                         IF Len(code) = 4 /\ \A k \in 1..4 : code[k] \in Digits
                         THEN {}
                         ELSE {" Postal Code must be exactly 4 digits for South Africa."}
                /\ (code # EmptyStr /\ country # SouthAfrica /\ Len(Stored("postal_code", i)) <= 10) =>
                      PostalReported(i) = {}

\* validate has reported the "4 digits" error for a South African record holding "12a"
C3_Witness ==
    /\ Validated
    /\ StoredCount > 0
    /\ Stored("address_country", 0) = SouthAfrica
    /\ Stored("postal_code", 0) = P12a
    /\ PostalReported(0) = {" Postal Code must be exactly 4 digits for South Africa."}

----------------------------------------------------------------------------
(* C4: every record serialize emits has its Province/State decided by its   *)
(* Address Country: an entry of the SA province list when the country is    *)
(* South Africa, the sentinel "Other" for every other country.              *)
C4_ProvinceByCountry ==
    payload # << >> =>
        \A k \in 1..Len(payload[1].payload.Records) :
            LET rec == payload[1].payload.Records[k]
            IN  IF rec["Address Country"] = SouthAfrica
                THEN rec["Province/State"] \in Range(SA_PROVINCES)
                ELSE rec["Province/State"] = Other

----------------------------------------------------------------------------
(* C5: with development mode off, validate reports the province-required    *)
(* error for record i exactly when the record's address country is South    *)
(* Africa and its stored province is empty; for any other country it        *)
(* reports no province error, whatever the stored province.                 *)
C5_ProvinceRule ==
    Validated =>
        \A i \in Indices : i < StoredCount =>
            (" Province is required for South Africa." \in TextsFor(i))
                <=> (/\ Stored("address_country", i) = SouthAfrica
                     /\ strip(Stored("province", i)) = EmptyStr)

\* validate has reported the province error for a South African record
C5_Witness ==
    /\ Validated
    /\ StoredCount > 0
    /\ Stored("address_country", 0) = SouthAfrica
    /\ " Province is required for South Africa." \in TextsFor(0)

----------------------------------------------------------------------------
(* C6: with the development-mode flag set, validate returns the empty list  *)
(* for every store content and every config.                                *)
C6_DevModeBypass ==
    (errors # << >> /\ errors[1].dev) => errors[1].list = << >>

\* validate has run in development mode on a store whose count is below min_count
\* and whose first record has no first name
C6_Witness ==
    /\ errors # << >>
    /\ errors[1].dev
    /\ StoredCount = 1
    /\ StoredCount < errors[1].cfg.min_count
    /\ Stored("first_name", 0) = EmptyStr
    /\ errors[1].list = << >>

----------------------------------------------------------------------------
(* C7: serialize, called without validate on a store that fails validation, *)
(* gives every record the same 17 fields and emits every field whose store  *)
(* key is absent as the empty string.                                       *)
FieldOf(label) ==
    CASE label = "Date of Birth" -> "date_of_birth"
      [] label = "Province/State" -> "province"
      [] OTHER -> LabelField[label]

KeyAbsent(label, i) == inst_key(NS, InstanceId, Suffix(FieldOf(label), i)) \notin DOMAIN store

\* the claim as stated
C7_AbsentAsEmpty ==
    payload # << >> =>
        \A k \in 1..Len(payload[1].payload.Records) :
            LET rec == payload[1].payload.Records[k]
            IN  /\ DOMAIN rec = RecordLabels
                /\ \A label \in RecordLabels :
                      KeyAbsent(label, k - 1) => rec[label] = EmptyStr

\* as amended: Province/State of an absent province key is "Other" unless the
\* Address Country is South Africa
C7_AbsentAsEmptyOrOther ==
    payload # << >> =>
        /\ Len(payload[1].payload.Records) = StoredCount
        /\ \A k \in 1..Len(payload[1].payload.Records) :
            LET rec == payload[1].payload.Records[k]
            IN  /\ DOMAIN rec = RecordLabels
                /\ Cardinality(DOMAIN rec) = 17
                /\ \A label \in RecordLabels \ {"Province/State"} :
                      KeyAbsent(label, k - 1) => rec[label] = EmptyStr
                /\ KeyAbsent("Province/State", k - 1) =>
                      rec["Province/State"] =
                         IF Stored("address_country", k - 1) = SouthAfrica
                         THEN EmptyStr ELSE Other

\* serialize has run on two records, none of whose keys is in the store, which
\* validate rejects
C7_Witness ==
    /\ payload # << >>
    /\ StoredCount = 2
    /\ DOMAIN store \cap {inst_key(NS, InstanceId, Suffix(f, i)) :
                             f \in Range(RenderFields), i \in Indices} = {}
    /\ validate(store, [role_label |-> "Controlling Person", min_count |-> 1], FALSE) # << >>
    /\ Len(payload[1].payload.Records) = 2

----------------------------------------------------------------------------
(* C8: validate and serialize never write to the session store; so, until   *)
(* the next edit, every serialize call returns what the previous one        *)
(* returned, whether or not validate ran in between.                        *)
C8_CallsDoNotWrite ==
    [][edits' = edits =>
          /\ store' = store
          /\ (payload # << >> /\ payload' # << >>) => payload' = payload]_vars

\* validate and serialize have both run on the same store, which holds a record
C8_Witness ==
    /\ errors # << >>
    /\ payload # << >>
    /\ StoredCount > 0
    /\ payload[1] = serialize(store)

----------------------------------------------------------------------------
(* C9: with development mode off, validate reports every violated rule of   *)
(* every record 0..count-1, once each, under the prefix "[<role> #<i+1>]",  *)
(* the errors of record i before those of record i+1; a count below         *)
(* min_count adds exactly one "At least ..." error, ahead of the others.    *)
Missing(field, i, text) == IF strip(Stored(field, i)) = EmptyStr THEN {text} ELSE {}

\* the rules record i violates, by the text of their error
Violated(i) ==
    Missing("first_name", i, " First Name is required.")
    \cup Missing("last_name", i, " Last Name is required.")
    \cup (IF Stored("date_of_birth", i) = NoDate
          THEN {" Date of Birth is required."}
          ELSE IF Stored("date_of_birth", i)[1] > MinAgeDate
               THEN {" Must be at least 18 years old."} ELSE {})
    \cup Missing("birth_country", i, " Country of Birth is required.")
    \cup Missing("member_role", i, " Role/Designation is required.")
    \cup Missing("tax_residence_country", i, " Country of Tax Residence is required.")
    \cup (IF Stored("tin_option", i) = EmptyStr
          THEN {" TIN Option is required."}
          ELSE IF Stored("tin_option", i) = HAS_TIN
               THEN Missing("controlling_person_tin", i,
                        " Controlling Person TIN is required when TIN Option is 'Has TIN'.")
               ELSE {})
    \cup Missing("street_name", i, " Street Name is required.")
    \cup Missing("suburb", i, " Suburb is required.")
    \cup Missing("city", i, " City is required.")
    \cup Missing("address_country", i, " Address Country is required.")
    \cup (IF Stored("address_country", i) = SouthAfrica
          THEN Missing("province", i, " Province is required for South Africa.")
          ELSE {})
    \cup (LET code == strip(Stored("postal_code", i))
          IN  IF code = EmptyStr THEN {" Postal Code is required."}
              ELSE IF Stored("address_country", i) = SouthAfrica
                   THEN IF Len(code) = 4 /\ \A k \in 1..4 : code[k] \in Digits
                        THEN {}
                        ELSE {" Postal Code must be exactly 4 digits for South Africa."}
                   ELSE IF Len(code) > 10 THEN {" Postal Code is invalid."} ELSE {})

\* the "At least ..." error of a config
AtLeast(c) ==
    [prefix |-> "[" \o c.role_label \o "s]",
     text |-> IF c.min_count = 1
              THEN " At least 1 entry required."
              ELSE " At least " \o ToString(c.min_count) \o " entries required."]

\* the record an error belongs to (-1 for the "At least ..." error)
RecordOf(e) ==
    IF \E i \in Indices : e.prefix = Prefix(errors[1].cfg.role_label, i)
    THEN CHOOSE i \in Indices : e.prefix = Prefix(errors[1].cfg.role_label, i)
    ELSE 0 - 1

C9_AllErrorsReported ==
    Validated =>
        LET list == errors[1].list
            c == errors[1].cfg
            head == IF StoredCount < c.min_count THEN <<AtLeast(c)>> ELSE << >>
        IN  /\ SubSeq(list, 1, Len(head)) = head
            /\ \A j \in DOMAIN list : j > Len(head) =>
                  /\ RecordOf(list[j]) >= 0
                  /\ RecordOf(list[j]) < StoredCount
            /\ \A j \in 1..(Len(list) - 1) : RecordOf(list[j]) <= RecordOf(list[j + 1])
            /\ \A i \in Indices : i < StoredCount =>
                  /\ TextsFor(i) = Violated(i)
                  /\ CountFor(i) = Cardinality(Violated(i))

\* validate has reported the "At least ..." error and several errors for each of
\* two records
C9_Witness ==
    /\ Validated
    /\ StoredCount = 2
    /\ StoredCount < errors[1].cfg.min_count
    /\ errors[1].list[1] = AtLeast(errors[1].cfg)
    /\ CountFor(0) >= 2
    /\ CountFor(1) >= 2
    /\ CountFor(0) # CountFor(1)

----------------------------------------------------------------------------
(* C10: within one (namespace, instance id) the count key and the keys of   *)
(* all (field, record index) pairs are pairwise distinct; validate and      *)
(* serialize read, for a field of record i, the key render writes for it;   *)
(* and the store holds no other keys than these and the display widgets'.   *)
KeyIndices == 0..(MaxCount + 10)

\* the keys do not depend on the store
KeysDistinct ==
    LET Pairs == Range(RenderFields) \X KeyIndices
        Keys == {RenderKey(p[1], p[2]) : p \in Pairs}
    IN  /\ Cardinality(Range(RenderFields)) = Len(RenderFields)
        /\ Cardinality(Keys \cup {count_key}) = Cardinality(Pairs) + 1
        /\ \A f \in Range(ValidateFields) :
              /\ f \in Range(RenderFields)
              /\ \A i \in KeyIndices : ValidateKey(f, i) = RenderKey(f, i)
        /\ \A f \in Range(SerializeFields) :
              /\ f \in Range(RenderFields)
              /\ \A i \in KeyIndices : SerializeKey(f, i) = RenderKey(f, i)

C10_KeysDistinct ==
    /\ store = NoStore => KeysDistinct
    /\ DOMAIN store \subseteq
          {RenderKey(f, i) : f \in Range(RenderFields), i \in Indices}
             \cup {count_key} \cup {province_display_key(i) : i \in Indices}

\* two records hold different values under the same field, and serialize has
\* read each from its own key
C10_Witness ==
    /\ StoredCount = 2
    /\ Stored("address_country", 0) = EmptyStr
    /\ Stored("address_country", 1) = SouthAfrica
    /\ payload # << >>
    /\ payload[1].payload.Records[1]["Address Country"] = EmptyStr
    /\ payload[1].payload.Records[2]["Address Country"] = SouthAfrica

----------------------------------------------------------------------------
(* C11: the live registry is determined by register_component calls only:  *)
(* whatever callers did to the mappings returned by get_component_registry, *)
(* the registry holds for each name the component most recently registered *)
(* under it, and get_component returned that component, or None for a name *)
(* that was never registered.                                              *)
C11_RegistryByRegistration ==
    /\ _REGISTRY = registered
    /\ got # << >> =>
          got[1].component =
             IF got[1].name \in DOMAIN registered
             THEN registered[got[1].name] ELSE None

\* get_component answered from the registration while the caller's mapping
\* had the name removed or replaced
C11_Witness ==
    /\ got # << >>
    /\ held # << >>
    /\ got[1].component # None
    /\ Get(held[1].entries, got[1].name, None) # got[1].component
    /\ held[1].entries # _REGISTRY

\* get_component answered None for a name never registered that the caller
\* had added to its mapping
C11_NeverRegistered ==
    /\ got # << >>
    /\ held # << >>
    /\ got[1].component = None
    /\ got[1].name \in DOMAIN held[1].entries

----------------------------------------------------------------------------
(* C12: a failure of PDF generation or of email sending never aborts       *)
(* handle_submission: a run that invoked make_pdf is at the completion and *)
(* download stage, where the PDF download is offered exactly when the PDF  *)
(* was generated and the CSV download exactly when the CSV was generated,  *)
(* whatever became of the other artifact and of the email.                 *)
C12_FailuresDoNotAbort ==
    Invoked("make_pdf") =>
       /\ pc = "Submitted"
       /\ Invoked("send_submission_email")
       /\ Shown("Submit Another Survey")
       /\ Shown("Download PDF Report") <=> locals.pdf_bytes # << >>
       /\ Shown("Download CSV Data") <=> locals.csv_string # << >>

\* PDF generation and the email both failed and the CSV download is offered
C12_Witness ==
    /\ pc = "Submitted"
    /\ locals.pdf_bytes = << >>
    /\ locals.email = <<"failed">>
    /\ Shown("Download CSV Data")

\* the email failed and both downloads are offered
C12_EmailFailed ==
    /\ pc = "Submitted"
    /\ locals.email = <<"failed">>
    /\ Shown("Download PDF Report")
    /\ Shown("Download CSV Data")

----------------------------------------------------------------------------
(* C13: once a submission has reached Submitted, no further PDF generation *)
(* or email dispatch for that session's data occurs until the user resets: *)
(* the pipeline has run at most once on the answers as they stand.         *)
C13_SubmittedIsTerminal ==
    runs <= 1

----------------------------------------------------------------------------
\* a step from the completion stage back to the page without any edit: the
\* click on "Submit Another Survey"
ResetStep == pc = "Submitted" /\ pc' = "idle" /\ edits' = edits

(* C14: the reset action clears exactly the namespaced keys of the current *)
(* FormSpec: after it no key of the survey's namespace remains, every      *)
(* other key except 'accept' is unchanged, and 'accept' is False.          *)
C14_ResetClears ==
    [][ResetStep =>
          /\ DOMAIN store' \cap NamespacedKeys = {}
          /\ \A k \in DOMAIN store \ (NamespacedKeys \cup {"accept"}) :
                k \in DOMAIN store' /\ store'[k] = store[k]
          /\ Get(store', "accept", TRUE) = FALSE]_vars

----------------------------------------------------------------------------
NotConfigured == current_namespace(store) \notin DOMAIN SPECS

(* C15: with no FormSpec registered in SPECS for the current namespace, a  *)
(* run invokes neither validate nor serialize_answers nor the pipeline of  *)
(* handle_submission, and a run that got past the declaration check has    *)
(* stopped on the configuration error.                                     *)
C15_MissingSpecStops ==
    NotConfigured =>
       /\ calls = << >>
       /\ pc \in {"idle", "reconstruct_payload", "Stopped"}
       /\ locals = NoLocals
       /\ (pc = "Stopped" /\ Get(store, "accept", FALSE)) =>
             shown = <<"Survey type '" \o current_namespace(store)
                          \o "' is not configured.">>

\* a click on Submit with the declaration accepted and no FormSpec
\* registered ended on the configuration error
C15_Witness ==
    /\ NotConfigured
    /\ pc = "Stopped"
    /\ Get(store, "accept", FALSE)
    /\ Shown("Survey type 'church' is not configured.")

----------------------------------------------------------------------------
\* the outbox of the call
Outbox == result[1]

\* the parts of kind k that message m carries, in order
PartsOf(m, k) ==
    LET isK(part) == part.kind = k
    IN  SelectSeq(m.attachments, isK)

\* the files of the call's list that are not None, in list order
GivenFiles ==
    LET given(f) == f # NoFile
    IN  SelectSeq(arg.uploaded_files, given)

\* message m carries every given file exactly once, in list order
CarriesUploads(m) ==
    /\ Len(PartsOf(m, "upload")) = Len(GivenFiles)
    /\ \A j \in 1..Len(GivenFiles) :
          PartsOf(m, "upload")[j].payload = GivenFiles[j][1].data

(* C16 as stated: each call produces one outbound message that carries the *)
(* generated PDF and CSV plus every non-None uploaded file exactly once in  *)
(* list order.                                                              *)
C16_OneMessageWithAll ==
    result # << >> =>
       /\ Len(Outbox) = 1
       /\ Len(PartsOf(Outbox[1], "pdf")) = 1
       /\ Len(PartsOf(Outbox[1], "csv")) = 1
       /\ CarriesUploads(Outbox[1])

(* C16, amended: each call produces at most one outbound message, and one  *)
(* exactly when the credentials are configured and the SMTP exchange       *)
(* succeeds; that message is addressed to the configured recipient of the  *)
(* mode (the default address when none is configured), carries the PDF if  *)
(* it could be generated and the CSV if it could be generated, each once,  *)
(* and every non-None uploaded file exactly once in list order.            *)
C16_AtMostOneMessage ==
    result # << >> =>
       /\ Len(Outbox) <= 1
       /\ Len(Outbox) = 1 <=> (arg.env.credentials /\ arg.env.smtp_ok)
       /\ Len(Outbox) = 1 =>
             LET m == Outbox[1]
                 configured == IF arg.env.dev_mode
                               THEN arg.env.dev_recipient_email
                               ELSE arg.env.recipient_address
             IN  /\ m.to = IF configured = << >> THEN DEFAULT_RECIPIENT
                           ELSE configured[1]
                 /\ Len(PartsOf(m, "pdf")) = (IF arg.env.pdf_ok THEN 1 ELSE 0)
                 /\ Len(PartsOf(m, "csv")) = (IF arg.env.csv_ok THEN 1 ELSE 0)
                 /\ CarriesUploads(m)
                 /\ Len(m.attachments) = Len(PartsOf(m, "pdf"))
                       + Len(PartsOf(m, "csv")) + Len(GivenFiles)

\* a message went out with the PDF, the CSV and two different files
C16_Witness ==
    /\ result # << >>
    /\ Len(Outbox) = 1
    /\ Len(arg.uploaded_files) = MaxUploads
    /\ arg.uploaded_files[1] # NoFile
    /\ arg.uploaded_files[2] # NoFile
    /\ arg.uploaded_files[1] # arg.uploaded_files[2]
    /\ Len(Outbox[1].attachments) = 4

\* a None entry was skipped
C16_NoneSkipped ==
    /\ result # << >>
    /\ Len(Outbox) = 1
    /\ Len(arg.uploaded_files) = 2
    /\ arg.uploaded_files[1] = NoFile
    /\ arg.uploaded_files[2] # NoFile
    /\ Len(PartsOf(Outbox[1], "upload")) = 1

----------------------------------------------------------------------------
\* the data rows of the CSV that make_csv returned
Rows == Tail(result[1])

\* the data rows under a section title, in output order
RowsOf(title) ==
    LET under(row) == row.Section = title
    IN  SelectSeq(Rows, under)

\* the rows under a title that carry record number k, in output order
RowsOfRecord(title, k) ==
    LET numbered(row) == row.Record = k
    IN  SelectSeq(RowsOf(title), numbered)

\* the entries of the payload of a kind
EntriesOf(kind) == {i \in DOMAIN arg : arg[i].data.kind = kind}

(* C17: every row of a non-repeater section has Record # = 1; the rows of  *)
(* the k-th record of a repeater section have Record # = k, 1-based and in *)
(* list order; a repeater section with zero records yields exactly the one *)
(* row (Section, 0, 'Count', 0).                                           *)
C17_RecordNumbers ==
    result # << >> =>
       /\ \A r \in DOMAIN Rows : Rows[r].Section = "Submission Details" =>
             Rows[r].Record = 1
       /\ \A i \in EntriesOf("flat") :
             \A r \in DOMAIN RowsOf(arg[i].title) : RowsOf(arg[i].title)[r].Record = 1
       /\ \A i \in EntriesOf("repeater") :
             LET title == arg[i].title
                 records == arg[i].data.Records
                 rows == RowsOf(title)
             IN  IF records = << >>
                 THEN rows = <<Row(title, 0, "Count", "0")>>
                 ELSE /\ \A r \in DOMAIN rows : rows[r].Record \in DOMAIN records
                      /\ \A r \in DOMAIN rows :
                            r > 1 => rows[r - 1].Record <= rows[r].Record
                      /\ \A k \in DOMAIN records :
                            RowsOfRecord(title, k) =
                               [j \in DOMAIN records[k] |->
                                   Row(title, k, records[k][j].field,
                                       str(records[k][j].value))]

\* a CSV for a payload of a flat section and a repeater of two records
C17_Witness ==
    /\ result # << >>
    /\ EntriesOf("flat") # {}
    /\ \E i \in EntriesOf("repeater") :
          /\ Len(arg[i].data.Records) = 2
          /\ RowsOfRecord(arg[i].title, 2) # << >>

\* a CSV for a payload with a repeater of zero records
C17_ZeroRecords ==
    /\ result # << >>
    /\ \E i \in EntriesOf("repeater") :
          /\ arg[i].data.Records = << >>
          /\ RowsOf(arg[i].title) # << >>

----------------------------------------------------------------------------
\* the fields of the flat sections of the payload
FlatCells ==
    UNION {{<<i, j>> : j \in DOMAIN arg[i].data.fields} : i \in EntriesOf("flat")}

\* the fields of the records of the repeater sections of the payload
RecordCells ==
    UNION {UNION {{<<i, k, j>> : j \in DOMAIN arg[i].data.Records[k]}
                  : k \in DOMAIN arg[i].data.Records}
           : i \in EntriesOf("repeater")}

\* the repeater sections of the payload that have no record
EmptyRepeaters == {i \in EntriesOf("repeater") : arg[i].data.Records = << >>}

\* the number of data rows equal to row
Copies(row) == Cardinality({r \in DOMAIN Rows : Rows[r] = row})

----------------------------------------------------------------------------
\* the file name the call returned
FileName == result[1]

\* the position of the last "." of a file name
LastDot(f) ==
    CHOOSE i \in 1..Len(f) : f[i] = "." /\ \A j \in (i + 1)..Len(f) : f[j] # "."

\* what stands before and after the last "."
BaseOf(f) == SubSeq(f, 1, LastDot(f) - 1)
ExtOf(f) == SubSeq(f, LastDot(f) + 1, Len(f))

\* the four components of the call, in the order of the file name
NameComponents ==
    <<arg.entity_context, arg.section_title, arg.person_identifier, arg.document_type>>

\* the non-empty ones of some parts, an underscore between neighbours
RECURSIVE Glue(_)
Glue(parts) ==
    IF parts = << >> THEN << >>
    ELSE LET rest == Glue(Tail(parts))
         IN  IF Head(parts) = << >> THEN rest
             ELSE IF rest = << >> THEN Head(parts)
             ELSE Head(parts) \o <<"_">> \o rest

\* the sanitized non-empty components joined by single underscores
Joined == Glue([k \in 1..Len(NameComponents) |-> _sanitize_filename_part(NameComponents[k])])

\* the attachment of the documented example and the name documented for it
Example ==
    [file |-> [name |-> scan_pdf], section_title |-> Company_Directors,
     document_type |-> SA_ID_Document, person_identifier |-> John_Smith_Director_1,
     entity_context |-> Acme_Corp_Company]
ExampleName ==
    <<"A","c","m","e","_","C","o","r","p","_","C","o","m","p","a","n","y","_","C","o","m","p","a","n","y","_","D","i","r","e","c","t","o","r","s","_","J","o","h","n","_","S","m","i","t","h","_","D","i","r","e","c","t","o","r","_","1","_","S","A","_","I","D","_","D","o","c","u","m","e","n","t",".","p","d","f">>

(* C19: generate_filename returns '<base>.<ext>'; the base holds only       *)
(* characters of [A-Za-z0-9_], no two consecutive underscores and no        *)
(* leading or trailing underscore, and is the sanitized non-empty           *)
(* components in the order entity_context, section_title,                   *)
(* person_identifier, document_type joined by single underscores (within    *)
(* the length limit); the documented example gives the documented name.     *)
C19_FilenameFormat ==
    result # << >> =>
        LET f == FileName
            base == BaseOf(f)
        IN  /\ \E i \in 1..Len(f) : f[i] = "."
            /\ \A i \in 1..Len(base) : base[i] \in Letters \cup Digits \cup {"_"}
            /\ \A i \in 1..(Len(base) - 1) : ~(base[i] = "_" /\ base[i + 1] = "_")
            /\ base # << >> => base[1] # "_" /\ base[Len(base)] # "_"
            /\ (Joined # << >> /\ Len(Joined) <= BaseLimit) => base = Joined
            /\ arg = Example => f = ExampleName

\* the example was named, and so was an attachment whose components all
\* needed cleaning
C19_Witness ==
    /\ result # << >>
    /\ arg = Example
    /\ FileName = ExampleName

C19_Cleaned ==
    /\ result # << >>
    /\ \A k \in 1..Len(NameComponents) :
          /\ NameComponents[k] # << >>
          /\ _sanitize_filename_part(NameComponents[k]) # NameComponents[k]
    /\ BaseOf(FileName) = Joined

----------------------------------------------------------------------------
\* the original file name carries no extension
NoExtension(name) ==
    \/ \A i \in 1..Len(name) : name[i] # "."
    \/ name[Len(name)] = "."

\* what the claim C20 says of a returned name
BaseAndExtension(f) ==
    LET base == BaseOf(f)
        ext == ExtOf(f)
    IN  /\ \E i \in 1..Len(f) : f[i] = "."
        /\ base # << >>
        /\ Len(base) <= BaseLimit
        /\ ext # << >>
        /\ Joined = << >> => base = Document
        /\ Len(Joined) > BaseLimit => base = SubSeq(Joined, 1, Len(base))
        /\ NoExtension(arg.file.name) => ext = bin

(* C20: for every input generate_filename yields a non-empty base of at     *)
(* most 200 characters followed by '.' and a non-empty extension: the base  *)
(* is 'Document' when all four components are empty or sanitize to empty, a *)
(* longer base is cut to the limit, and the extension is 'bin' whenever the *)
(* original file name has no extension.                                     *)
C20_BaseAndExtension == result # << >> => BaseAndExtension(FileName)

\* a name ending in "." was given, and the returned name ends in "."
C20_EmptyExtension ==
    /\ result # << >>
    /\ arg.file.name[Len(arg.file.name)] = "."
    /\ ExtOf(FileName) = << >>

\* every file name that does not end in "." gets what C20 says
C20_ExceptTrailingDot ==
    (result # << >> /\ arg.file.name[Len(arg.file.name)] # ".")
        => BaseAndExtension(FileName)

\* a base cut at the limit may come out shorter than the limit
C20_CutBelowLimit ==
    /\ result # << >>
    /\ Len(Joined) > BaseLimit
    /\ Len(BaseOf(FileName)) < BaseLimit

----------------------------------------------------------------------------
\* the identifier the call returned
Identifier == result[1]

\* a name with every non-alphanumeric character removed
CleanName(name) ==
    LET IsAlnum(c) == c \in Letters \cup Digits
    IN  SelectSeq(name, IsAlnum)

\* a role with every non-alphanumeric character replaced by an underscore
UnderscoredRole(role) ==
    [i \in 1..Len(role) |-> IF role[i] \in Letters \cup Digits THEN role[i] ELSE "_"]

\* the identifier of the claim, for a role as it is to be written: the
\* non-empty clean names, the role and the index, underscores between them
IdentifierOf(role) ==
    Glue(<<CleanName(arg.first_name), CleanName(arg.last_name)>>)
        \o (IF CleanName(arg.first_name) \o CleanName(arg.last_name) = << >>
            THEN << >> ELSE <<"_">>)
        \o role \o <<"_">> \o format_int(arg.index)

\* the example of the claim and the identifier documented for it
MaryJaneExample ==
    [first_name |-> Mary_Jane, last_name |-> OConnor, role |-> Auth_Rep, index |-> 1]
MaryJaneIdentifier ==
    <<"M","a","r","y","J","a","n","e","_","O","C","o","n","n","o","r","_","A","u","t","h","_","R","e","p","_","1">>

(* C21 as stated: the identifier is '<first>_<last>_<role>_<index>' with    *)
(* every non-alphanumeric character removed from first and last and every  *)
(* non-alphanumeric character of role replaced by '_'; a name that is      *)
(* empty after cleaning is left out together with its separator.           *)
C21_EveryRoleCharacter ==
    result # << >> => Identifier = IdentifierOf(UnderscoredRole(arg.role))

(* C21, amended: as stated, but the role first loses its leading and       *)
(* trailing whitespace, and only the characters that remain are replaced;  *)
(* the example of the claim gives the identifier of the claim.             *)
C21_StrippedRole ==
    result # << >> =>
        /\ Identifier = IdentifierOf(UnderscoredRole(strip(arg.role)))
        /\ arg = MaryJaneExample => Identifier = MaryJaneIdentifier

\* the example was named, and a call with a missing first name was made
C21_Witness ==
    /\ result # << >>
    /\ arg = MaryJaneExample
    /\ Identifier = MaryJaneIdentifier

C21_MissingName ==
    /\ result # << >>
    /\ CleanName(arg.first_name) = << >>
    /\ arg.first_name # << >>
    /\ CleanName(arg.last_name) # << >>
    /\ Identifier[1] # "_"

----------------------------------------------------------------------------
\* consent is recorded in the store
ConsentGiven == Get(store, "consent_given", FALSE)

\* the signature is complete: full name and email non-empty, all seven
\* consent items checked
SignatureComplete(s) ==
    /\ Get(s, "consent_full_name", EmptyStr) # EmptyStr
    /\ Get(s, "consent_email", EmptyStr) # EmptyStr
    /\ \A k \in 1..Len(consent_items) : Get(s, consent_items[k], FALSE)

\* the run just finished called render_form
FormRendered == \E k \in 1..Len(shown) : shown[k] = "render_form"

\* a run of the consent page finished without asking for a rerun
ConsentQuiescent == pc = "consent"

\* consent_given turns true in this step
ConsentRecorded == ~ConsentGiven /\ Get(store', "consent_given", FALSE)

(* C22: main() calls render_form only in a run where consent_given is      *)
(* true, and consent_given becomes true only in a run of the consent page  *)
(* in which the full name and the email are non-empty and all seven        *)
(* consent items are checked.                                              *)
C22_ConsentBeforeForm ==
    /\ [](FormRendered => ConsentGiven)
    /\ [][ConsentRecorded => (pc' = "consent" /\ SignatureComplete(store'))]_vars

\* the questionnaire was drawn, consent having been recorded
C22_Witness == FormRendered /\ ConsentGiven /\ pc = "main"

----------------------------------------------------------------------------
\* the seven items all hold the value b
ItemsAll(b) == \A k \in 1..Len(consent_items) : Get(store, consent_items[k], ~b) = b

(* C23: once the reruns have settled, checking 'Accept All' has set all    *)
(* seven consent items to True and unchecking it has set all seven to      *)
(* False.                                                                  *)
C23_AcceptAllSetsItems ==
    ConsentQuiescent =>
        /\ locals.interaction = "accept_all_on" => ItemsAll(TRUE)
        /\ locals.interaction = "accept_all_off" => ItemsAll(FALSE)

\* 'Accept All' was unchecked, the chain has settled and the items are clear
C23_Witness ==
    /\ ConsentQuiescent
    /\ locals.interaction = "accept_all_off"
    /\ runs >= 1
    /\ ItemsAll(FALSE)

C23_Checked ==
    /\ ConsentQuiescent
    /\ locals.interaction = "accept_all_on"
    /\ runs >= 1
    /\ ItemsAll(TRUE)

----------------------------------------------------------------------------
(* C24: the accept-all synchronisation never loops: after any user         *)
(* interaction the chain of st.rerun calls ends within two reruns, in a    *)
(* run that asks for no further rerun.                                     *)
C24_RerunsEnd == pc = "rerun" => runs < 2

\* a chain of two reruns has ended: the seventh item was ticked by hand
C24_Witness ==
    /\ ConsentQuiescent
    /\ runs = 2
    /\ locals.interaction = "item"

----------------------------------------------------------------------------
(* C28: whenever the consent page is quiescent, 'Accept All' is checked if *)
(* and only if all seven individual consent items are checked.             *)
C28_AcceptAllMatchesItems ==
    ConsentQuiescent => (Get(store, "accept_all_consents", FALSE) <=> ItemsAll(TRUE))

\* 'Accept All' stays checked after an item was unchecked
C28_StaleAcceptAll ==
    /\ ConsentQuiescent
    /\ locals.interaction = "item"
    /\ Get(store, "accept_all_consents", FALSE)
    /\ ~ItemsAll(TRUE)

\* the other direction: with all items checked 'Accept All' is checked
C28_ItemsImplyAcceptAll ==
    (ConsentQuiescent /\ ItemsAll(TRUE)) => Get(store, "accept_all_consents", FALSE)

----------------------------------------------------------------------------
(* C29: in every reachable session state consent_given = true implies that *)
(* all seven consent items are checked and that full name and email are    *)
(* non-empty: unchecking an item or clearing the name or email withdraws   *)
(* consent_given and with it access to the questionnaire.                  *)
C29_ConsentTracksSignature == ConsentGiven => SignatureComplete(store)

\* the questionnaire is drawn with the signature no longer complete
C29_StaleConsent ==
    /\ FormRendered
    /\ ConsentGiven
    /\ ~SignatureComplete(store)

----------------------------------------------------------------------------
\* a step of handle_submission that ran the pipeline
PipelineStep == pc = "handle_submission" /\ pc' = "Submitted"

(* C30: handle_submission removes 'feedback_data' from the session store   *)
(* only when the submission email was actually sent; when sending fails    *)
(* the key is left in the store unchanged.                                 *)
C30_FeedbackKeptOnFailure ==
    [][(PipelineStep /\ "feedback_data" \in DOMAIN store /\ locals'.email # <<"sent">>)
          => ("feedback_data" \in DOMAIN store' /\ store'["feedback_data"] = store["feedback_data"])]_vars

----------------------------------------------------------------------------
\* the data rows of the research CSV that the call returned
ResearchRowsOut == result[1].rows

\* the question ids of the research questions: PK, HNH, CD, TC, MGA, JK, BC, T
ResearchIds == {SECTION_ABBREVIATIONS[k].id : k \in 1..Len(SECTION_ABBREVIATIONS)}

\* the rows written under one question id
RowsWithId(id) == {r \in 1..Len(ResearchRowsOut) : ResearchRowsOut[r].question_id = id}

(* C25: make_investment_research_csv emits at most one row per research    *)
(* question section and no row for any other payload entry ('Survey Type', *)
(* the participant characterization, 'Additional Comments (Optional)',     *)
(* 'Declaration', 'Feedback'): every question_id is one of PK, HNH, CD,    *)
(* TC, MGA, JK, BC, T.                                                     *)
C25_OnlyResearchRows ==
    result # << >> =>
        /\ \A r \in 1..Len(ResearchRowsOut) : ResearchRowsOut[r].question_id \in ResearchIds
        /\ \A id \in ResearchIds : Cardinality(RowsWithId(id)) <= 1

\* a row 'DEC' carries the name under which the consent was signed
C25_DeclarationRow ==
    /\ result # << >>
    /\ \E r \in 1..Len(ResearchRowsOut) :
          /\ ResearchRowsOut[r].question_id = <<"D", "E", "C">>
          /\ ResearchRowsOut[r].response_text = <<"A", "n", "n">>

\* what holds: one row at most per research section, and none for the three
\* entries the loop names
C25_NamedEntriesSkipped ==
    result # << >> =>
        /\ \A id \in ResearchIds : Cardinality(RowsWithId(id)) <= 1
        /\ \A r \in 1..Len(ResearchRowsOut) :
              ResearchRowsOut[r].question_id
                  \notin {<<"S", "U", "R">>, <<"P", "A", "R">>, <<"A", "D", "D">>}

----------------------------------------------------------------------------
\* the research sections of the payload, the Likert field first
ResearchSections ==
    {k \in 1..Len(arg) : \E a \in 1..Len(SECTION_ABBREVIATIONS) :
        SECTION_ABBREVIATIONS[a].title = arg[k].title}

\* the numeric value of the option chosen on the Likert field of section k
ChosenValue(k) ==
    LET option == arg[k].data.fields[1].value.s
    IN  IF option = << >> THEN << >> ELSE <<option[1]>>

\* the non-empty ones of some texts joined with "; "
RECURSIVE JoinTexts(_)
JoinTexts(texts) ==
    IF texts = << >> THEN << >>
    ELSE LET rest == JoinTexts(Tail(texts))
         IN  IF Head(texts) = << >> THEN rest
             ELSE IF rest = << >> THEN Head(texts)
             ELSE Head(texts) \o <<";", " ">> \o rest

\* the free-text answers of section k, in field order
TypedIn(k) ==
    LET fields == arg[k].data.fields
    IN  [i \in 1..(Len(fields) - 1) |-> fields[i + 1].value.s]

\* the row of section k holds the chosen value and the joined free text
RowAsAnswered(k) ==
    LET id == Abbreviation(arg[k].title)
        at == RowsWithId(id)
    IN  IF ChosenValue(k) = << >> /\ JoinTexts(TypedIn(k)) = << >>
        THEN at = {}
        ELSE \E r \in at :
                /\ ResearchRowsOut[r].likert_response = ChosenValue(k)
                /\ ResearchRowsOut[r].response_text = JoinTexts(TypedIn(k))

(* C26: in every row of a research section likert_response is empty or the *)
(* numeric value 1 to 5 of the option chosen on the section's Likert field, *)
(* and the section's free-text answers go to response_text only, joined    *)
(* with '; ' in field order, whatever the participant typed.               *)
C26_LikertFromScaleOnly ==
    result # << >> =>
        /\ \A r \in 1..Len(ResearchRowsOut) :
              ResearchRowsOut[r].likert_response
                  \in {<< >>} \cup {<<DigitChar[i + 1]>> : i \in 1..5}
        /\ \A k \in ResearchSections : RowAsAnswered(k)

\* a typed answer took the place of the chosen value
C26_TypedAsLikert ==
    /\ result # << >>
    /\ \E k \in ResearchSections, r \in 1..Len(ResearchRowsOut) :
          /\ ResearchRowsOut[r].question_id = Abbreviation(arg[k].title)
          /\ ChosenValue(k) # << >>
          /\ ResearchRowsOut[r].likert_response \notin {<< >>, ChosenValue(k)}

\* what holds: the claim, for the payloads in which no typed answer contains
\* a digit 1 to 5 followed by " -"
C26_PlainTextOnly ==
    (/\ result # << >>
     /\ \A k \in ResearchSections : \A i \in 1..Len(TypedIn(k)) :
           ~LooksLikeLikert(TypedIn(k)[i]))
        => \A k \in ResearchSections : RowAsAnswered(k)

----------------------------------------------------------------------------
(* C27: after any sequence of add_attachment and clear_attachments calls,  *)
(* get_attachment_count is the number of add_attachment calls with a file  *)
(* since the last clear, an add_attachment with file None has changed      *)
(* nothing, and get_attachments_for_email and get_legacy_upload_list list  *)
(* the attachments in insertion order, element i of the upload list being  *)
(* the file of element i of the metadata list.                             *)
C27_CollectorLists ==
    LET for_email == get_attachments_for_email(attachments)
        uploads == get_legacy_upload_list(attachments)
    IN  /\ get_attachment_count(attachments) = Len(added)
        /\ Len(attachments) = Len(added)
        /\ uploads = added
        /\ Len(for_email) = Len(uploads)
        /\ \A i \in 1..Len(uploads) : uploads[i] = for_email[i].file

\* two different files were added and then an add with file None was made
C27_Witness ==
    /\ arg # << >>
    /\ arg[1].call = "add_attachment"
    /\ arg[1].file = NoFile
    /\ Len(added) = 2
    /\ added[1] # added[2]
    /\ get_attachment_count(attachments) = 2

\* the collector was cleared and holds nothing
C27_Cleared ==
    /\ arg # << >>
    /\ arg[1].call = "clear_attachments"
    /\ get_attachment_count(attachments) = 0

====
